---- MODULE Spec2Model ----
(***************************************************************************)
(* CRS scoring core of better-call-lincon: the hardcoded Scoring Engine    *)
(* (app/ai/crs_agent.py), the rule checker (app/ai/crs_rule_checker.py),   *)
(* the AI calculator (app/ai/crs_ai_calculator.py) and the dynamic method  *)
(* selector with its process-wide rule-check cache                         *)
(* (app/ai/crs_dynamic.py).                                                *)
(*                                                                         *)
(* Representation.  Text is a TLA+ string, taken apart with Head, Tail,    *)
(* SubSeq and Len.  An Optional value is <<>> for None and << x >> for     *)
(* the value x; a float raw score x is kept in tenths.  The clock counts   *)
(* minutes.                                                                *)
(***************************************************************************)
EXTENDS Integers, Sequences, FiniteSets, Bags, TLC

VARIABLES
    rule_check_cache,   \* crs_dynamic._rule_check_cache: <<>> (None) or << rule check >>
    cache_timestamp,    \* crs_dynamic._cache_timestamp: <<>> (None) or << minute >>
    now,                \* datetime.utcnow(), minutes since the process started
    call,               \* the last call of the public interface and what it did
    log,                \* observer: the latest run of calls that use the cache
    forced_seen,        \* observer: one earlier force_hardcoded call and its result
    threads,            \* where each thread of concurrent callers stands in its call
    response,           \* what the latest step of a route answered to POST /crs/compute:
                        \* << answer >>, or <<>> when that step ended no such request
    in_flight           \* the requests of the routes that wait at an await: a bag of frames

vars == <<rule_check_cache, cache_timestamp, now, call, log, forced_seen, threads, response, in_flight>>

None == <<>>

Some(x) == << x >>

(***************************************************************************)
(* Python str operations used by the code.                                 *)
(***************************************************************************)
LowerOf ==
    [ A |-> "a", B |-> "b", C |-> "c", D |-> "d", E |-> "e", F |-> "f", G |-> "g",
      H |-> "h", I |-> "i", J |-> "j", K |-> "k", L |-> "l", M |-> "m", N |-> "n",
      O |-> "o", P |-> "p", Q |-> "q", R |-> "r", S |-> "s", T |-> "t", U |-> "u",
      V |-> "v", W |-> "w", X |-> "x", Y |-> "y", Z |-> "z" ]
    @@ ("À" :> "à") @@ ("Á" :> "á") @@ ("Â" :> "â") @@ ("Ã" :> "ã")
    @@ ("Ä" :> "ä") @@ ("Å" :> "å") @@ ("Æ" :> "æ") @@ ("Ç" :> "ç")
    @@ ("È" :> "è") @@ ("É" :> "é") @@ ("Ê" :> "ê") @@ ("Ë" :> "ë")
    @@ ("Ì" :> "ì") @@ ("Í" :> "í") @@ ("Î" :> "î") @@ ("Ï" :> "ï")
    @@ ("Ð" :> "ð") @@ ("Ñ" :> "ñ") @@ ("Ò" :> "ò") @@ ("Ó" :> "ó")
    @@ ("Ô" :> "ô") @@ ("Õ" :> "õ") @@ ("Ö" :> "ö") @@ ("Ø" :> "ø")
    @@ ("Ù" :> "ù") @@ ("Ú" :> "ú") @@ ("Û" :> "û") @@ ("Ü" :> "ü")
    @@ ("Ý" :> "ý") @@ ("Þ" :> "þ")

lower_char(c) == IF c \in DOMAIN LowerOf THEN LowerOf[c] ELSE c

\* str.lower(), on the characters a TLA+ string holds (up to U+00FF)
RECURSIVE lower(_)
lower(s) == IF s = "" THEN "" ELSE lower_char(Head(s)) \o lower(Tail(s))

\* the characters str.strip, lstrip and rstrip remove (those c with
\* c.isspace()), as far as a TLA+ string holds them: tab, newline, vertical
\* tab, form feed, carriage return, the separators U+001C to U+001F, space,
\* next line (U+0085) and the no-break space (U+00A0).  The characters past
\* U+00FF that Python strips as well cannot be written in a TLA+ string.
Whitespace ==
    {" ", "\t", "\n", "\r", "\f", "", "", "", "", "", "", " "}

RECURSIVE lstrip(_)
lstrip(s) == IF s # "" /\ Head(s) \in Whitespace THEN lstrip(Tail(s)) ELSE s

RECURSIVE rstrip(_)
rstrip(s) ==
    IF s # "" /\ SubSeq(s, Len(s), Len(s)) \in Whitespace
    THEN rstrip(SubSeq(s, 1, Len(s) - 1)) ELSE s

\* str.strip()
strip(s) == rstrip(lstrip(s))

\* str.replace(a, b) for one-character a and b
RECURSIVE replace(_, _, _)
replace(s, a, b) ==
    IF s = "" THEN "" ELSE (IF Head(s) = a THEN b ELSE Head(s)) \o replace(Tail(s), a, b)

\* text.replace("Z", "+00:00")
RECURSIVE replace_z(_)
replace_z(s) ==
    IF s = "" THEN "" ELSE (IF Head(s) = "Z" THEN "+00:00" ELSE Head(s)) \o replace_z(Tail(s))

\* Python's `sub in s` on strings
str_in(sub, s) == \E i \in 0..(Len(s) - Len(sub)) : SubSeq(s, i + 1, i + Len(sub)) = sub

(***************************************************************************)
(* crs_agent.py: language test -> CLB conversion.                          *)
(***************************************************************************)
ielts_to_clb(score) ==
    IF score = None THEN 0
    ELSE LET s == score[1] IN
         IF s <= 30 THEN 4
         ELSE IF s <= 35 THEN 4
         ELSE IF s <= 40 THEN 5
         ELSE IF s <= 45 THEN 5
         ELSE IF s <= 50 THEN 6
         ELSE IF s <= 55 THEN 6
         ELSE IF s <= 60 THEN 7
         ELSE IF s <= 65 THEN 8
         ELSE IF s <= 70 THEN 9
         ELSE IF s <= 75 THEN 9
         ELSE IF s <= 80 THEN 10
         ELSE IF s <= 85 THEN 10
         ELSE 12

\* int(float(s)) on a value in tenths: truncation toward zero
int_of_tenths(x) == IF x >= 0 THEN x \div 10 ELSE -((-x) \div 10)

\* the nested _c of _clb_from_scores (CELPIP)
celpip_c(s) ==
    IF s = None THEN 0
    ELSE LET v == int_of_tenths(s[1]) IN
         IF 1 <= v /\ v <= 12 THEN v ELSE 0

\* the nested _p of _clb_from_scores (PTE Core)
pte_p(s) ==
    IF s = None THEN 0
    ELSE LET v == s[1] IN
         IF v < 360 THEN 4
         ELSE IF v < 470 THEN 5
         ELSE IF v < 550 THEN 6
         ELSE IF v < 630 THEN 7
         ELSE IF v < 750 THEN 8
         ELSE IF v < 830 THEN 9
         ELSE 10

clb_from_scores(test_type, speaking, listening, reading, writing) ==
    IF test_type # "" /\ str_in("celpip", lower(test_type))
    THEN <<celpip_c(speaking), celpip_c(listening), celpip_c(reading), celpip_c(writing)>>
    ELSE IF test_type # "" /\ str_in("pte", lower(test_type))
    THEN <<pte_p(speaking), pte_p(listening), pte_p(reading), pte_p(writing)>>
    ELSE <<ielts_to_clb(speaking), ielts_to_clb(listening),
           ielts_to_clb(reading), ielts_to_clb(writing)>>

\* min(x for x in t if x > 0) if any(t) else 0
min_positive(t) ==
    IF \E i \in 1..4 : t[i] # 0
    THEN CHOOSE m \in {t[i] : i \in {j \in 1..4 : t[j] > 0}} :
             \A i \in 1..4 : t[i] > 0 => m <= t[i]
    ELSE 0

\* min(t) over all four entries
min_all(t) == CHOOSE m \in {t[i] : i \in 1..4} : \A i \in 1..4 : m <= t[i]

(***************************************************************************)
(* crs_agent.py: the point grids.                                          *)
(***************************************************************************)
lang_points(clb, with_spouse) ==
    LET grid == [c \in 4..12 |->
                    CASE c = 4 -> <<0, 0>>
                      [] c = 5 -> <<1, 1>>
                      [] c = 6 -> <<9, 8>>
                      [] c = 7 -> <<17, 15>>
                      [] c = 8 -> <<23, 21>>
                      [] c = 9 -> <<31, 29>>
                      [] OTHER -> <<34, 32>>]
        pts == IF clb \in DOMAIN grid THEN grid[clb] ELSE <<0, 0>>
    IN IF with_spouse THEN pts[2] ELSE pts[1]

second_lang_points(clb_min) == IF clb_min >= 5 THEN 6 ELSE 0

max2(a, b) == IF a >= b THEN a ELSE b

min2(a, b) == IF a <= b THEN a ELSE b

\* a variant that still awards points at age 45
age_points_to_45(age, with_spouse) ==
    IF age < 18 THEN 0
    ELSE IF age > 45 THEN 0
    ELSE IF age <= 19
         THEN LET base == IF age = 18 THEN 99 ELSE IF age = 19 THEN 105 ELSE 0
              IN IF ~with_spouse THEN base ELSE max2(0, base - 10)
    ELSE IF age <= 29
         THEN IF ~with_spouse THEN 110 ELSE 100
    ELSE LET decline == <<105, 99, 93, 87, 81, 75, 69, 63, 57, 51, 45, 39, 33, 27, 21, 15>>
             idx == min2(age - 30, 15)
             pt == IF idx < Len(decline) THEN decline[idx + 1] ELSE 0
         IN IF with_spouse THEN max2(0, pt - 10) ELSE pt

\* a variant whose flat range ends at 30 instead of 29
age_points_flat_to_30(age, with_spouse) ==
    IF age < 18 THEN 0
    ELSE IF age >= 45 THEN 0
    ELSE IF age <= 19
         THEN LET base == IF age = 18 THEN 99 ELSE IF age = 19 THEN 105 ELSE 0
              IN IF ~with_spouse THEN base ELSE max2(0, base - 10)
    ELSE IF age <= 30
         THEN IF ~with_spouse THEN 110 ELSE 100
    ELSE LET decline == <<105, 99, 93, 87, 81, 75, 69, 63, 57, 51, 45, 39, 33, 27, 21, 15>>
             idx == min2(age - 30, 15)
             pt == IF idx < Len(decline) THEN decline[idx + 1] ELSE 0
         IN IF with_spouse THEN max2(0, pt - 10) ELSE pt

age_points(age, with_spouse) ==
    IF age < 18 THEN 0
    ELSE IF age >= 45 THEN 0
    ELSE IF age <= 19
         THEN LET base == IF age = 18 THEN 99 ELSE IF age = 19 THEN 105 ELSE 0
              IN IF ~with_spouse THEN base ELSE max2(0, base - 10)
    ELSE IF age <= 29
         THEN IF ~with_spouse THEN 110 ELSE 100
    ELSE LET decline == <<105, 99, 93, 87, 81, 75, 69, 63, 57, 51, 45, 39, 33, 27, 21, 15>>
             idx == min2(age - 30, 15)
             pt == IF idx < Len(decline) THEN decline[idx + 1] ELSE 0
         IN IF with_spouse THEN max2(0, pt - 10) ELSE pt

\* the levels dict of _education_points, in insertion order: key, single, with spouse
education_levels == <<
    <<"secondary", 30, 28>>,
    <<"one_two_year_diploma", 90, 84>>,
    <<"two_year_diploma", 98, 91>>,
    <<"bachelors", 120, 112>>,
    <<"two_or_more", 128, 119>>,
    <<"masters", 135, 126>>,
    <<"phd", 150, 140>> >>

education_points(level, with_spouse) ==
    LET key == replace(lower(strip(level)), " ", "_")
        hits == {i \in 1..Len(education_levels) :
                    str_in(education_levels[i][1], key) \/ str_in(key, education_levels[i][1])}
    IN IF hits # {}
       THEN LET first == CHOOSE i \in hits : \A j \in hits : i <= j
            IN IF with_spouse THEN education_levels[first][3] ELSE education_levels[first][2]
       ELSE IF str_in("bachelor", key) \/ str_in("degree", key) \/ str_in("3", key)
            THEN IF with_spouse THEN 112 ELSE 120
       ELSE IF str_in("master", key) \/ str_in("masters", key)
            THEN IF with_spouse THEN 126 ELSE 135
       ELSE IF str_in("phd", key) \/ str_in("doctoral", key)
            THEN IF with_spouse THEN 140 ELSE 150
       ELSE IF str_in("diploma", key) \/ str_in("1", key) \/ str_in("2", key)
            THEN IF with_spouse THEN 91 ELSE 98
       ELSE IF with_spouse THEN 28 ELSE 30

canadian_work_points(years, with_spouse) ==
    LET grid == << <<0, 0>>, <<40, 35>>, <<53, 46>>, <<64, 56>>, <<72, 63>>, <<80, 70>> >>
        idx == min2(max2(0, years), 5)
    IN IF with_spouse THEN grid[idx + 1][2] ELSE grid[idx + 1][1]

\* the levels dict of _spouse_education_points, in insertion order
spouse_education_levels == <<
    <<"none", 0>>, <<"secondary", 2>>, <<"one_year", 6>>, <<"two_year", 7>>,
    <<"bachelors", 8>>, <<"two_or_more", 9>>, <<"masters", 10>>, <<"phd", 10>> >>

spouse_education_points(level) ==
    LET key == lower(strip(level))
        hits == {i \in 1..Len(spouse_education_levels) :
                    str_in(spouse_education_levels[i][1], key)}
    IN IF hits # {}
       THEN spouse_education_levels[CHOOSE i \in hits : \A j \in hits : i <= j][2]
       ELSE 0

spouse_canadian_work_points(years) ==
    LET grid == <<0, 5, 7, 8, 9, 10>>
    IN grid[min2(max2(0, years), 5) + 1]

spouse_language_points(clb_min) ==
    IF clb_min >= 9 THEN 5
    ELSE IF clb_min >= 5 THEN 1
    ELSE 0

degree_levels == {"masters", "phd", "two_or_more", "bachelors"}

transferability_education_language(edu_level, clb_min, with_spouse) ==
    IF clb_min >= 9 /\ edu_level \in degree_levels THEN 50
    ELSE IF clb_min >= 7 /\ edu_level \in degree_levels THEN 25
    ELSE 0

transferability_education_canadian_work(edu_level, canadian_years, with_spouse) ==
    IF canadian_years >= 2 /\ edu_level \in degree_levels THEN 50
    ELSE IF canadian_years >= 1 /\ edu_level \in degree_levels THEN 25
    ELSE 0

transferability_foreign_language(foreign_years, clb_min) ==
    IF foreign_years >= 3 /\ clb_min >= 9 THEN 50
    ELSE IF foreign_years >= 3 /\ clb_min >= 7 THEN 25
    ELSE IF foreign_years >= 1 /\ clb_min >= 9 THEN 25
    ELSE IF foreign_years >= 1 /\ clb_min >= 7 THEN 13
    ELSE 0

canadian_study_bonus(has_canadian_edu, level_detail) ==
    IF ~has_canadian_edu THEN 0
    ELSE LET ld == lower(level_detail) IN
         IF \/ str_in("secondary", ld) \/ str_in("1", ld) \/ str_in("2", ld)
            \/ str_in("one", ld) \/ str_in("two", ld)
         THEN 15
         ELSE 30

normalize_edu_level(level) ==
    LET s == lower(strip(level)) IN
    IF str_in("phd", s) \/ str_in("doctoral", s) THEN "phd"
    ELSE IF str_in("master", s) \/ str_in("masters", s) THEN "masters"
    ELSE IF str_in("bachelor", s) \/ str_in("degree", s) \/ str_in("3", s) THEN "bachelors"
    ELSE IF str_in("two_or_more", s) \/ str_in("two or more", s) THEN "two_or_more"
    ELSE IF str_in("diploma", s) \/ str_in("1", s) \/ str_in("2", s) THEN "two_year_diploma"
    ELSE "secondary"

(***************************************************************************)
(* crs_agent.py: CRSInput, CRSResult and compute_crs (imported by          *)
(* crs_dynamic as compute_crs_hardcoded).                                  *)
(***************************************************************************)
\* CRSInput() with every field at its dataclass default
CRSInput == [
    age |-> 0,
    marital_status |-> "single",
    spouse_accompanying |-> FALSE,
    spouse_canadian_pr |-> FALSE,
    education_level |-> "",
    education_level_detail |-> "",
    canadian_education |-> FALSE,
    language_test |-> "ielts",
    lang_speaking |-> None,
    lang_listening |-> None,
    lang_reading |-> None,
    lang_writing |-> None,
    has_second_language |-> FALSE,
    second_lang_speaking |-> None,
    second_lang_listening |-> None,
    second_lang_reading |-> None,
    second_lang_writing |-> None,
    canadian_work_years |-> 0,
    foreign_work_years |-> 0,
    certificate_of_qualification |-> FALSE,
    provincial_nomination |-> FALSE,
    sibling_in_canada |-> FALSE,
    spouse_education_level |-> "",
    spouse_canadian_work_years |-> 0,
    spouse_lang_speaking |-> None,
    spouse_lang_listening |-> None,
    spouse_lang_reading |-> None,
    spouse_lang_writing |-> None,
    spouse_language_test |-> "ielts" ]

\* the default disclaimer of CRSResult
DefaultDisclaimer ==
    "This tool is for general guidance only. Official IRCC system results govern. See Canada.ca Express Entry CRS calculator. Not legal advice."

\* CRSResult(...): non_int lists the fields whose Python value is not of the
\* declared type (the dataclass does not validate), and raw maps each of
\* them to the value it holds; both are empty for every result the Scoring
\* Engine builds.
CRSResult(total, core, spouse, transfer, additional, breakdown, missing, disclaimer, non_int) ==
    [ total |-> total,
      core_human_capital |-> core,
      spouse_factors |-> spouse,
      skill_transferability |-> transfer,
      additional_points |-> additional,
      breakdown |-> breakdown,
      missing_or_defaulted |-> missing,
      disclaimer |-> disclaimer,
      non_int |-> non_int,
      raw |-> << >> ]

with_spouse_of(inp) ==
    LET first == inp.spouse_accompanying
                 /\ inp.marital_status \notin {"single", "never_married", "divorced",
                                               "widowed", "separated", "annulled"}
    IN IF lower(inp.marital_status) \in {"married", "common_law", "common-law"}
          /\ inp.spouse_accompanying
       THEN TRUE
       ELSE first

sum4(t) == t[1] + t[2] + t[3] + t[4]

\* crs_agent.compute_crs once the spouse flag, the normalised education level
\* and the three CLB conversions are in hand
scored(inp, with_spouse, edu_norm, clb, clb_spouse, clb_second) ==
    LET no_lang == /\ inp.lang_speaking = None /\ inp.lang_listening = None
                   /\ inp.lang_reading = None /\ inp.lang_writing = None
        missing == (IF inp.age <= 0 THEN <<"age">> ELSE <<>>)
                   \o (IF inp.education_level = "" /\ inp.education_level_detail = ""
                       THEN <<"education_level">> ELSE <<>>)
                   \o (IF no_lang THEN <<"language_scores">> ELSE <<>>)
        age_pts == IF inp.age > 0 THEN age_points(inp.age, with_spouse) ELSE 0
        edu_pts == education_points(edu_norm, with_spouse)
        clb_min == min_positive(clb)
        lang_pts == IF clb_min > 0
                    THEN sum4([i \in 1..4 |-> lang_points(clb[i], with_spouse)])
                    ELSE 0
        cdn_work_pts == canadian_work_points(inp.canadian_work_years, with_spouse)
        core == age_pts + edu_pts + lang_pts + cdn_work_pts
        spouse_clb == min_positive(clb_spouse)
        spouse_pts == IF with_spouse
                      THEN spouse_education_points(inp.spouse_education_level)
                           + spouse_canadian_work_points(inp.spouse_canadian_work_years)
                           + spouse_language_points(spouse_clb)
                      ELSE 0
        trans_edu_lang == transferability_education_language(edu_norm, clb_min, with_spouse)
        trans_edu_work == transferability_education_canadian_work(
                              edu_norm, inp.canadian_work_years, with_spouse)
        trans_foreign == transferability_foreign_language(inp.foreign_work_years, clb_min)
        transferability == min2(100, trans_edu_lang + trans_edu_work + trans_foreign)
        study == canadian_study_bonus(inp.canadian_education, inp.education_level_detail)
        add == (IF inp.provincial_nomination THEN 600 ELSE 0)
               + study
               + (IF inp.sibling_in_canada THEN 15 ELSE 0)
               + (IF inp.certificate_of_qualification THEN 50 ELSE 0)
               + (IF inp.has_second_language
                  THEN second_lang_points(min_positive(clb_second)) ELSE 0)
        total == min2(1200, core + spouse_pts + transferability + add)
        breakdown == [
            age |-> age_pts,
            education |-> edu_pts,
            first_official_language |-> lang_pts,
            canadian_work_experience |-> cdn_work_pts,
            spouse_factors |-> spouse_pts,
            skill_transferability |-> transferability,
            provincial_nomination |-> IF inp.provincial_nomination THEN 600 ELSE 0,
            canadian_study_bonus |-> study,
            sibling_in_canada |-> IF inp.sibling_in_canada THEN 15 ELSE 0,
            certificate_of_qualification |-> IF inp.certificate_of_qualification THEN 50 ELSE 0,
            second_official_language |->
                IF inp.has_second_language /\ min_all(clb_second) >= 5 THEN 6 ELSE 0 ]
    IN CRSResult(total, core, spouse_pts, transferability, add, breakdown, missing,
                 DefaultDisclaimer, {})

\* crs_agent.compute_crs.  The five intermediate values are bound by a set
\* constructor so that each is computed once.
crs_agent_compute_crs(inp) ==
    CHOOSE result \in
        { scored(inp, with_spouse, edu_norm, clb, clb_spouse, clb_second) :
            with_spouse \in {with_spouse_of(inp)},
            edu_norm \in {normalize_edu_level(IF inp.education_level # ""
                                              THEN inp.education_level
                                              ELSE inp.education_level_detail)},
            clb \in {clb_from_scores(inp.language_test, inp.lang_speaking,
                         inp.lang_listening, inp.lang_reading, inp.lang_writing)},
            clb_spouse \in {clb_from_scores(inp.spouse_language_test,
                         inp.spouse_lang_speaking, inp.spouse_lang_listening,
                         inp.spouse_lang_reading, inp.spouse_lang_writing)},
            clb_second \in {clb_from_scores("ielts", inp.second_lang_speaking,
                         inp.second_lang_listening, inp.second_lang_reading,
                         inp.second_lang_writing)} } : TRUE

\* the profile of src/test_crs_determinism.py (Scenario A)
ScenarioA == [CRSInput EXCEPT
    !.age = 30,
    !.education_level = "bachelors",
    !.education_level_detail = "Bachelor's degree",
    !.lang_speaking = Some(75),
    !.lang_listening = Some(80),
    !.lang_reading = Some(85),
    !.lang_writing = Some(70),
    !.canadian_work_years = 2,
    !.foreign_work_years = 3 ]

\* a married applicant with an accompanying spouse and a provincial
\* nomination: the sum of the subtotals exceeds 1200
NominatedCouple == [ScenarioA EXCEPT
    !.age = 25,
    !.marital_status = "married",
    !.spouse_accompanying = TRUE,
    !.education_level = "phd",
    !.education_level_detail = "phd",
    !.canadian_education = TRUE,
    !.lang_speaking = Some(90),
    !.lang_listening = Some(90),
    !.lang_reading = Some(90),
    !.lang_writing = Some(90),
    !.has_second_language = TRUE,
    !.second_lang_speaking = Some(60),
    !.second_lang_listening = Some(60),
    !.second_lang_reading = Some(60),
    !.second_lang_writing = Some(60),
    !.canadian_work_years = 5,
    !.certificate_of_qualification = TRUE,
    !.provincial_nomination = TRUE,
    !.sibling_in_canada = TRUE,
    !.spouse_education_level = "masters",
    !.spouse_canadian_work_years = 5,
    !.spouse_lang_speaking = Some(90),
    !.spouse_lang_listening = Some(90),
    !.spouse_lang_reading = Some(90),
    !.spouse_lang_writing = Some(90) ]

(***************************************************************************)
(* The profile data of a user (the dict `data` of routes/eligibility.py    *)
(* after the merge of lines 33-130).  A key that is absent or None is      *)
(* None, "" or 0 here; the values that are present have the type the       *)
(* profile schema gives them.                                              *)
(***************************************************************************)
LanguageScores(test, speaking, listening, reading, writing) ==
    [test |-> test, testType |-> "", speaking |-> speaking, listening |-> listening,
     reading |-> reading, writing |-> writing]

\* the day date.today() returns, <<year, month, day>>
Today == <<2026, 10, 30>>

DigitOf ==
    ("0" :> 0) @@ ("1" :> 1) @@ ("2" :> 2) @@ ("3" :> 3) @@ ("4" :> 4) @@ ("5" :> 5)
    @@ ("6" :> 6) @@ ("7" :> 7) @@ ("8" :> 8) @@ ("9" :> 9)

is_digit(c) == c \in DOMAIN DigitOf

RECURSIVE to_int(_)
to_int(s) ==
    IF s = "" THEN 0
    ELSE to_int(SubSeq(s, 1, Len(s) - 1)) * 10 + DigitOf[SubSeq(s, Len(s), Len(s))]

\* the characters U+0080 to U+00FF: UTF-8 writes each in two bytes
NonAscii ==
    LET high == " ¡¢£¤¥¦§¨©ª«¬­®¯°±²³´µ¶·¸¹º»¼½¾¿"
                \o "ÀÁÂÃÄÅÆÇÈÉÊËÌÍÎÏÐÑÒÓÔÕÖ×ØÙÚÛÜÝÞßàáâãäåæçèéêëìíîïðñòóôõö÷øùúûüýþÿ"
    IN {SubSeq(high, i, i) : i \in 1..Len(high)}

\* PyUnicode_AsUTF8AndSize: the C code of datetime.fromisoformat reads the
\* text byte by byte.  One character stands for one byte here: a character
\* of NonAscii is written twice, for its two bytes (neither is a digit, a
\* sign or a separator of the format).
RECURSIVE utf8(_)
utf8(s) ==
    IF s = "" THEN ""
    ELSE (IF Head(s) \in NonAscii THEN Head(s) \o Head(s) ELSE Head(s)) \o utf8(Tail(s))

\* dtstr[i] in C: the byte at index i (from 0), "" for the terminator
char_at(dtstr, i) == IF i >= 0 /\ i < Len(dtstr) THEN SubSeq(dtstr, i + 1, i + 1) ELSE ""

\* parse_digits(p, &var, num_digits): Some(value), None when one of the
\* num_digits bytes at index p is no digit
parse_digits(dtstr, p, num_digits) ==
    IF \A k \in 0..(num_digits - 1) : is_digit(char_at(dtstr, p + k))
    THEN Some(to_int(SubSeq(dtstr, p + 1, p + num_digits)))
    ELSE None

\* a / b and a % b of C, which truncate toward zero (b > 0)
c_div(a, b) == IF a >= 0 THEN a \div b ELSE -((-a) \div b)

c_mod(a, b) == a - b * c_div(a, b)

is_leap(year) == year % 4 = 0 /\ (year % 100 # 0 \/ year % 400 = 0)

days_in_month(year, month) ==
    IF month = 2 THEN IF is_leap(year) THEN 29 ELSE 28
    ELSE IF month \in {4, 6, 9, 11} THEN 30 ELSE 31

\* _days_before_month[month], and one more after February of a leap year
days_before_month(year, month) ==
    << 0, 31, 59, 90, 120, 151, 181, 212, 243, 273, 304, 334 >>[month]
    + (IF month > 2 /\ is_leap(year) THEN 1 ELSE 0)

days_before_year(year) ==
    LET y == year - 1
    IN y * 365 + c_div(y, 4) - c_div(y, 100) + c_div(y, 400)

ymd_to_ord(year, month, day) ==
    days_before_year(year) + days_before_month(year, month) + day

\* weekday(year, 1, 1), 0 for Monday
first_weekday_of(year) == c_mod(ymd_to_ord(year, 1, 1) + 6, 7)

iso_week1_monday(year) ==
    LET first_day == ymd_to_ord(year, 1, 1)
        first_weekday == c_mod(first_day + 6, 7)
        week1_monday == first_day - first_weekday
    IN IF first_weekday > 3 THEN week1_monday + 7 ELSE week1_monday

\* ord_to_ymd(ordinal) for ordinal >= 1: << year, month, day >>
ord_to_ymd(ordinal) ==
    LET n400 == (ordinal - 1) \div 146097
        r400 == (ordinal - 1) % 146097
        n100 == r400 \div 36524
        r100 == r400 % 36524
        n4 == r100 \div 1461
        r4 == r100 % 1461
        n1 == r4 \div 365
        n == r4 % 365
        year == n400 * 400 + 1 + n100 * 100 + n4 * 4 + n1
        leapyear == n1 = 3 /\ (n4 # 24 \/ n100 = 3)
        leap_day(m) == IF m > 2 /\ leapyear THEN 1 ELSE 0
        guess == (n + 50) \div 32
        month == IF days_before_month(1, guess) + leap_day(guess) > n THEN guess - 1 ELSE guess
        preceding == days_before_month(1, month) + leap_day(month)
    IN IF n1 = 4 \/ n100 = 4 THEN << year - 1, 12, 31 >>
       ELSE << year, month, n - preceding + 1 >>

\* iso_to_ymd(iso_year, iso_week, iso_day): Some(<< year, month, day >>),
\* None for a week or a day out of range.  In year 0 the ordinal is not
\* positive: ord_to_ymd then reads outside its table, and the build ends
\* the call with ValueError for each of these texts.
iso_to_ymd(iso_year, iso_week, iso_day) ==
    LET first_weekday == first_weekday_of(iso_year)
        out_of_range ==
            /\ iso_week <= 0 \/ iso_week >= 53
            /\ ~(iso_week = 53 /\ (first_weekday = 3 \/ (first_weekday = 2 /\ is_leap(iso_year))))
        ordinal == iso_week1_monday(iso_year) + (iso_week - 1) * 7 + iso_day - 1
    IN IF out_of_range THEN None
       ELSE IF iso_day <= 0 \/ iso_day >= 8 THEN None
       ELSE IF ordinal < 1 THEN None
       ELSE Some(ord_to_ymd(ordinal))

\* _find_isoformat_datetime_separator(dtstr, len): the index of the byte
\* between the date and the time, -1 for a week date cut short
find_isoformat_datetime_separator(dtstr) ==
    LET len == Len(dtstr)
        stops == {i \in 7..(len - 1) : ~is_digit(char_at(dtstr, i))}
        idx == IF len <= 7 THEN 7
               ELSE IF stops = {} THEN len
               ELSE CHOOSE i \in stops : \A j \in stops : i <= j
    IN IF len = 7 THEN 7
       ELSE IF char_at(dtstr, 4) = "-"
       THEN IF char_at(dtstr, 5) = "W"
            THEN IF len < 8 THEN -1
                 ELSE IF len > 8 /\ char_at(dtstr, 8) = "-"
                 THEN IF len = 9 THEN -1
                      ELSE IF len > 10 /\ is_digit(char_at(dtstr, 10)) THEN 8 ELSE 10
                 ELSE 8
            ELSE 10
       ELSE IF char_at(dtstr, 4) = "W"
       THEN IF idx < 9 THEN idx ELSE IF idx % 2 = 0 THEN 7 ELSE 8
       ELSE 8

\* parse_isoformat_date(dtstr, len): Some(<< year, month, day >>) as read
\* (YYYY-MM-DD, YYYYMMDD) or as converted from an ISO week date (YYYY-Www,
\* YYYY-Www-D, YYYYWww, YYYYWwwD), None when it returns an error code.  The
\* length -1 is cast to size_t, so that a day is looked for.
parse_isoformat_date(dtstr, len) ==
    LET year == parse_digits(dtstr, 0, 4)
        uses_separator == char_at(dtstr, 4) = "-"
        p == IF uses_separator THEN 5 ELSE 4
        iso_week == parse_digits(dtstr, p + 1, 2)
        has_day == p + 3 < len \/ len < 0
        iso_day == IF has_day
                   THEN parse_digits(dtstr, IF uses_separator THEN p + 4 ELSE p + 3, 1)
                   ELSE Some(1)
        month == parse_digits(dtstr, p, 2)
        day == parse_digits(dtstr, IF uses_separator THEN p + 3 ELSE p + 2, 2)
    IN IF year = None THEN None
       ELSE IF char_at(dtstr, p) = "W"
       THEN IF iso_week = None THEN None
            ELSE IF has_day /\ uses_separator /\ char_at(dtstr, p + 3) # "-" THEN None
            ELSE IF iso_day = None THEN None
            ELSE iso_to_ymd(year[1], iso_week[1], iso_day[1])
       ELSE IF month = None THEN None
       ELSE IF uses_separator /\ char_at(dtstr, p + 2) # "-" THEN None
       ELSE IF day = None THEN None
       ELSE Some(<< year[1], month[1], day[1] >>)

\* the end of parse_hh_mm_ss_ff: the fraction that starts at index p of
\* tstr.  follows says that the byte at tstr_end is not the terminator.
parse_ff(tstr, follows, p, vals) ==
    LET len_remains == Len(tstr) - p
        to_parse == IF len_remains >= 6 THEN 6 ELSE len_remains
        stops == {i \in (p + to_parse)..(Len(tstr) - 1) : ~is_digit(char_at(tstr, i))}
    IN IF parse_digits(tstr, p, to_parse) = None THEN [rv |-> -3, vals |-> vals]
       ELSE [rv |-> IF stops # {} \/ follows THEN 1 ELSE 0, vals |-> vals]

\* parse_hh_mm_ss_ff(tstr, tstr_end, ...) from its i-th component on, at
\* index p: [rv, vals], rv the return code (0: read to the end of the
\* text, 1: something follows, negative: malformed) and vals the
\* components read
RECURSIVE parse_hh_mm_ss(_, _, _, _, _, _)
parse_hh_mm_ss(tstr, follows, i, p, separated, vals) ==
    IF i = 3 THEN parse_ff(tstr, follows, p, vals)
    ELSE LET val == parse_digits(tstr, p, 2)
             c == char_at(tstr, p + 2)
             has_separator == IF i = 0 THEN c = ":" ELSE separated
             read == Append(vals, val[1])
         IN IF val = None THEN [rv |-> -3, vals |-> vals]
            ELSE IF p + 3 >= Len(tstr)
            THEN [rv |-> IF p + 2 < Len(tstr) \/ follows THEN 1 ELSE 0, vals |-> read]
            ELSE IF has_separator /\ c = ":"
            THEN parse_hh_mm_ss(tstr, follows, i + 1, p + 3, has_separator, read)
            ELSE IF c \in {".", ","} THEN parse_ff(tstr, follows, p + 3, read)
            ELSE IF ~has_separator
            THEN parse_hh_mm_ss(tstr, follows, i + 1, p + 2, has_separator, read)
            ELSE [rv |-> -4, vals |-> read]

\* the i-th component read, 0 when the text ends before it
component(vals, i) == IF i <= Len(vals) THEN vals[i] ELSE 0

hh_mm_ss_ff(parsed) ==
    [rv |-> parsed.rv, hour |-> component(parsed.vals, 1),
     minute |-> component(parsed.vals, 2), second |-> component(parsed.vals, 3)]

\* [rv, hour, minute, second] of parse_hh_mm_ss_ff on the bytes of tstr
parse_hh_mm_ss_ff(tstr, follows) ==
    hh_mm_ss_ff(parse_hh_mm_ss(tstr, follows, 0, 0, TRUE, << >>))

\* the index of the first Z, + or - of tstr (tzinfo_pos), its length when
\* it holds none
tzinfo_position(tstr) ==
    LET marks == {i \in 0..(Len(tstr) - 1) : char_at(tstr, i) \in {"Z", "+", "-"}}
    IN IF marks = {} THEN Len(tstr) ELSE CHOOSE i \in marks : \A j \in marks : i <= j

time_of(time, tzoffset) ==
    Some([hour |-> time.hour, minute |-> time.minute, second |-> time.second,
          tzoffset |-> tzoffset])

\* the parts of an offset are summed without a range check
with_offset(time, tzsign, tz) ==
    IF tz.rv # 0 THEN None
    ELSE time_of(time, tzsign * (tz.hour * 3600 + tz.minute * 60 + tz.second))

\* parse_isoformat_time after the time of day is read: the return code 1
\* of the time of day is looked at only when no sign and no Z follows
isoformat_time(tstr, tzinfo_pos, time) ==
    IF time.rv < 0 THEN None
    ELSE IF tzinfo_pos = Len(tstr) THEN IF time.rv = 1 THEN None ELSE time_of(time, 0)
    ELSE IF char_at(tstr, tzinfo_pos) = "Z"
    THEN IF tzinfo_pos + 1 < Len(tstr) THEN None ELSE time_of(time, 0)
    ELSE with_offset(time, IF char_at(tstr, tzinfo_pos) = "-" THEN -1 ELSE 1,
                     parse_hh_mm_ss_ff(SubSeq(tstr, tzinfo_pos + 2, Len(tstr)), FALSE))

parse_isoformat_time_from(tstr, tzinfo_pos) ==
    isoformat_time(tstr, tzinfo_pos,
                   parse_hh_mm_ss_ff(SubSeq(tstr, 1, tzinfo_pos), tzinfo_pos < Len(tstr)))

\* parse_isoformat_time(dtstr, dtlen, ...): None for a negative return
\* code, else Some of the time of day and the UTC offset in seconds
parse_isoformat_time(tstr) == parse_isoformat_time_from(tstr, tzinfo_position(tstr))

\* the checks of the constructors on what was read: the offset strictly
\* within 24 hours, the date and the time of day in range
new_datetime(date, time) ==
    IF date = None \/ time = None THEN None
    ELSE IF time[1].tzoffset <= -86400 \/ time[1].tzoffset >= 86400 THEN None
    ELSE IF /\ date[1][1] >= 1 /\ date[1][1] <= 9999
            /\ date[1][2] >= 1 /\ date[1][2] <= 12
            /\ date[1][3] >= 1 /\ date[1][3] <= days_in_month(date[1][1], date[1][2])
            /\ time[1].hour < 24 /\ time[1].minute < 60 /\ time[1].second < 60
    THEN date
    ELSE None

\* the date runs up to the separator, one character of any kind is skipped
\* (two bytes when it is not ASCII), and the rest is the time
datetime_at(dtstr, separator_location) ==
    new_datetime(
        parse_isoformat_date(dtstr, separator_location),
        IF Len(dtstr) > separator_location
        THEN parse_isoformat_time(
                 SubSeq(dtstr,
                        separator_location + 1
                        + (IF char_at(dtstr, separator_location) \in NonAscii THEN 2 ELSE 1),
                        Len(dtstr)))
        ELSE Some([hour |-> 0, minute |-> 0, second |-> 0, tzoffset |-> 0]))

fromisoformat_utf8(dtstr) == datetime_at(dtstr, find_isoformat_datetime_separator(dtstr))

\* datetime.fromisoformat(text).date(): Some(<< year, month, day >>), None
\* when it raises
fromisoformat(text) == fromisoformat_utf8(utf8(text))

\* _strptime: the number of characters that the regular expression of a
\* directive matches at index i of the text, 0 when it does not match:
\* %Y is (\d\d\d\d), %m is (1[0-2]|0[1-9]|[1-9]) and %d is
\* (3[01]|[12]\d|0[1-9]|[1-9]| [1-9]); the first alternative that matches
\* is taken
directive_len(text, i, directive) ==
    IF directive = "Y"
    THEN IF parse_digits(text, i, 4) # None THEN 4 ELSE 0
    ELSE IF directive = "m"
    THEN IF \/ char_at(text, i) = "1" /\ char_at(text, i + 1) \in {"0", "1", "2"}
            \/ char_at(text, i) = "0" /\ is_digit(char_at(text, i + 1))
               /\ char_at(text, i + 1) # "0"
         THEN 2
         ELSE IF is_digit(char_at(text, i)) /\ char_at(text, i) # "0" THEN 1
         ELSE 0
    ELSE IF \/ char_at(text, i) = "3" /\ char_at(text, i + 1) \in {"0", "1"}
            \/ char_at(text, i) \in {"1", "2"} /\ is_digit(char_at(text, i + 1))
            \/ char_at(text, i) \in {"0", " "} /\ is_digit(char_at(text, i + 1))
               /\ char_at(text, i + 1) # "0"
         THEN 2
         ELSE IF is_digit(char_at(text, i)) /\ char_at(text, i) # "0" THEN 1
         ELSE 0

\* int() of the characters a directive matched
directive_value(text, i, len) ==
    IF char_at(text, i) = " " THEN DigitOf[char_at(text, i + 1)]
    ELSE to_int(SubSeq(text, i + 1, i + len))

\* datetime(year, month, day).date(), None when the day is out of range
date_of(year, month, day) ==
    IF year >= 1 /\ day <= days_in_month(year, month)
    THEN Some(<< year, month, day >>) ELSE None

\* the date of the three values matched, in the order of the directives
date_in_order(directives, values) ==
    date_of(values[CHOOSE k \in 1..3 : directives[k] = "Y"],
            values[CHOOSE k \in 1..3 : directives[k] = "m"],
            values[CHOOSE k \in 1..3 : directives[k] = "d"])

strptime_third(text, directives, l1, l2, l3) ==
    IF l3 = 0 \/ Len(text) # l1 + l2 + l3 + 2 THEN None
    ELSE date_in_order(directives, << directive_value(text, 0, l1),
                                      directive_value(text, l1 + 1, l2),
                                      directive_value(text, l1 + l2 + 2, l3) >>)

strptime_second(text, directives, sep, l1, l2) ==
    IF l2 = 0 \/ char_at(text, l1 + 1 + l2) # sep THEN None
    ELSE strptime_third(text, directives, l1, l2,
                        directive_len(text, l1 + l2 + 2, directives[3]))

strptime_first(text, directives, sep, l1) ==
    IF l1 = 0 \/ char_at(text, l1) # sep THEN None
    ELSE strptime_second(text, directives, sep, l1, directive_len(text, l1 + 1, directives[2]))

\* datetime.strptime(text, format).date() for a format of three directives
\* with sep between them, e.g. "%d/%m/%Y" is <<"d", "m", "Y">> with "/":
\* the text is matched against the regular expression of the format and
\* nothing may follow; None when it raises
strptime(text, directives, sep) ==
    strptime_first(text, directives, sep, directive_len(text, 0, directives[1]))

\* datetime.strptime(text, "%Y-%m-%d").date()
strptime_ymd(text) == strptime(text, <<"Y", "m", "d">>, "-")

\* today.year - d.year - ((today.month, today.day) < (d.month, d.day))
age_on(today, d) ==
    today[1] - d[1]
    - (IF today[2] < d[2] \/ (today[2] = d[2] /\ today[3] < d[3]) THEN 1 ELSE 0)

\* a profile with no data but the marital status the route defaults
NoData == [
    age |-> 0,
    dob_age |-> 0,
    dob |-> "",
    marital_status |-> "single",
    spouse_accompanying |-> FALSE,
    education_level |-> "",
    education_level_detail |-> "",
    canadian_education |-> FALSE,
    language_scores |-> None,
    has_second_language |-> FALSE,
    second_language_scores |-> None,
    canadian_work_years |-> 0,
    foreign_work_years |-> 0,
    certificate_of_qualification |-> FALSE,
    provincial_nomination |-> FALSE,
    sibling_in_canada |-> FALSE,
    spouse_canadian_pr |-> FALSE,
    spouse_education_level |-> "",
    spouse_canadian_work_years |-> 0,
    spouse_language_scores |-> None,
    maritalStatus |-> "",
    spouseAccompanying |-> FALSE,
    spouseCanadianPr |-> FALSE,
    educationLevel |-> "",
    educationLevelDetail |-> "",
    canadianEducation |-> FALSE,
    languageScores |-> None,
    hasSecondLanguage |-> FALSE,
    secondLanguageScores |-> None,
    canadianWorkYears |-> 0,
    foreignWorkYears |-> 0,
    certificateOfQualification |-> FALSE,
    provincialNomination |-> FALSE,
    siblingInCanada |-> FALSE,
    spouseEducationLevel |-> "",
    spouseCanadianWorkYears |-> 0,
    spouseLanguageScores |-> None ]

ScenarioAData == [NoData EXCEPT
    !.age = 30,
    !.education_level = "bachelors",
    !.education_level_detail = "Bachelor's degree",
    !.language_scores = Some(LanguageScores("ielts", Some(75), Some(80), Some(85), Some(70))),
    !.canadian_work_years = 2,
    !.foreign_work_years = 3 ]

\* every field that analyze_crs_requirements looks at is present
CompleteData == [ScenarioAData EXCEPT
    !.canadian_education = TRUE,
    !.has_second_language = TRUE,
    !.second_language_scores = Some(LanguageScores("tef", Some(60), Some(60), Some(60), Some(60))),
    !.certificate_of_qualification = TRUE,
    !.provincial_nomination = TRUE,
    !.sibling_in_canada = TRUE ]

\* Python's `a or b` on two values of one type: a when it is truthy
str_or(a, b) == IF a # "" THEN a ELSE b

int_or(a, b) == IF a # 0 THEN a ELSE b

dict_or(a, b) == IF a # None THEN a ELSE b

\* `data.get(snake) or data.get(camel) or {}` of lines 468, 471 and 489
scores_or_empty(a, b) ==
    IF dict_or(a, b) # None THEN dict_or(a, b)[1] ELSE LanguageScores("", None, None, None, None)

\* lines 475-487: age_val, or the age on the date d of birth when age_val
\* is not positive and the dob is read
age_or_dob(age_val, d) == IF age_val <= 0 /\ d # None THEN age_on(Today, d[1]) ELSE age_val

\* crs_agent.profile_to_crs_input on such data: every key is read under its
\* snake_case name and, when that value is falsy, under its camelCase name
profile_to_crs_input(data) ==
    LET lang == scores_or_empty(data.language_scores, data.languageScores)
        spouse_lang == scores_or_empty(data.spouse_language_scores, data.spouseLanguageScores)
        s2lang == scores_or_empty(data.second_language_scores, data.secondLanguageScores)
    IN [ age |-> age_or_dob(int_or(data.age, data.dob_age),
                            IF data.dob = "" THEN None
                            ELSE fromisoformat(replace_z(data.dob))),
         marital_status |->
             strip(str_or(str_or(data.marital_status, data.maritalStatus), "single")),
         spouse_accompanying |-> data.spouse_accompanying \/ data.spouseAccompanying,
         spouse_canadian_pr |-> data.spouse_canadian_pr \/ data.spouseCanadianPr,
         education_level |-> strip(str_or(data.education_level, data.educationLevel)),
         education_level_detail |->
             strip(str_or(data.education_level_detail, data.educationLevelDetail)),
         canadian_education |-> data.canadian_education \/ data.canadianEducation,
         language_test |-> strip(str_or(str_or(lang.test, lang.testType), "ielts")),
         lang_speaking |-> lang.speaking,
         lang_listening |-> lang.listening,
         lang_reading |-> lang.reading,
         lang_writing |-> lang.writing,
         has_second_language |-> data.has_second_language \/ data.hasSecondLanguage,
         second_lang_speaking |-> s2lang.speaking,
         second_lang_listening |-> s2lang.listening,
         second_lang_reading |-> s2lang.reading,
         second_lang_writing |-> s2lang.writing,
         canadian_work_years |-> int_or(data.canadian_work_years, data.canadianWorkYears),
         foreign_work_years |-> int_or(data.foreign_work_years, data.foreignWorkYears),
         certificate_of_qualification |->
             data.certificate_of_qualification \/ data.certificateOfQualification,
         provincial_nomination |-> data.provincial_nomination \/ data.provincialNomination,
         sibling_in_canada |-> data.sibling_in_canada \/ data.siblingInCanada,
         spouse_education_level |->
             strip(str_or(data.spouse_education_level, data.spouseEducationLevel)),
         spouse_canadian_work_years |->
             int_or(data.spouse_canadian_work_years, data.spouseCanadianWorkYears),
         spouse_lang_speaking |-> spouse_lang.speaking,
         spouse_lang_listening |-> spouse_lang.listening,
         spouse_lang_reading |-> spouse_lang.reading,
         spouse_lang_writing |-> spouse_lang.writing,
         spouse_language_test |->
             strip(str_or(str_or(spouse_lang.test, spouse_lang.testType), "ielts")) ]

\* lines 54-60: the date of fromisoformat, and when that raises, the date
\* of strptime
dob_date_of(iso, dob_value) == IF iso # None THEN iso ELSE strptime_ymd(dob_value)

\* lines 68-70: the age is taken when it is positive and under 120
accepted_age(age) == IF age > 0 /\ age < 120 THEN age ELSE 0

age_at(dob_date) == IF dob_date = None THEN 0 ELSE accepted_age(age_on(Today, dob_date[1]))

\* lines 45-72 of analyze_crs_requirements: the age computed from dob when
\* the data hold no age, 0 when none is computed
age_calculated(profile_data) ==
    IF profile_data.age = 0 /\ profile_data.dob # ""
    THEN age_at(dob_date_of(fromisoformat(replace_z(profile_data.dob)), profile_data.dob))
    ELSE 0

\* line 72: profile_data["age"] = age_value
with_age(profile_data, age_value) ==
    IF age_value # 0 THEN [profile_data EXCEPT !.age = age_value] ELSE profile_data

\* utils/crs_requirements.analyze_crs_requirements: the keys of its result
\* that the route reads, and profile_data as the call leaves it (line 72
\* writes the age it computed)
analyze_crs_requirements(profile_data) ==
    LET lang_present ==
            /\ profile_data.language_scores # None
            /\ LET lang_scores == profile_data.language_scores[1]
               IN /\ lang_scores.test # ""
                  /\ \E skill \in {"speaking", "listening", "reading", "writing"} :
                        lang_scores[skill] # None
        missing_required ==
            (IF profile_data.age # 0 \/ profile_data.dob # "" THEN <<>> ELSE <<"age">>)
            \o (IF profile_data.education_level # "" \/ profile_data.education_level_detail # ""
                THEN <<>> ELSE <<"education_level">>)
            \o (IF lang_present THEN <<>> ELSE <<"language_scores">>)
        missing_optional ==
            (IF profile_data.marital_status # "" THEN <<>> ELSE <<"marital_status">>)
            \o (IF profile_data.canadian_work_years # 0 THEN <<>> ELSE <<"canadian_work_years">>)
            \o (IF profile_data.foreign_work_years # 0 THEN <<>> ELSE <<"foreign_work_years">>)
            \o (IF profile_data.canadian_education THEN <<>> ELSE <<"canadian_education">>)
            \o (IF profile_data.second_language_scores # None
                THEN <<>> ELSE <<"second_language_scores">>)
            \o (IF profile_data.provincial_nomination THEN <<>> ELSE <<"provincial_nomination">>)
            \o (IF profile_data.certificate_of_qualification
                THEN <<>> ELSE <<"certificate_of_qualification">>)
            \o (IF profile_data.sibling_in_canada THEN <<>> ELSE <<"sibling_in_canada">>)
    IN [can_calculate |-> Len(missing_required) = 0,
        is_complete |-> Len(missing_required) = 0 /\ Len(missing_optional) = 0,
        missing_required |-> missing_required,
        missing_optional |-> missing_optional,
        profile_data |-> with_age(profile_data, age_calculated(profile_data))]

(***************************************************************************)
(* routes/eligibility.py, POST /crs/compute, lines 47-129: the profile     *)
(* document of the user, the merge of its root fields into its data, the   *)
(* analysis and the overrides of the request body.                         *)
(***************************************************************************)
\* the data of a document that holds none: every key absent ("" , 0, FALSE
\* and None stand for an absent or falsy value)
EmptyData == [NoData EXCEPT !.marital_status = ""]

\* doc.education_json: canadian_education is None when the key is absent
EducationJson(education_level, education_level_detail, canadian_education) ==
    [education_level |-> education_level, education_level_detail |-> education_level_detail,
     canadian_education |-> canadian_education]

\* a document of db.profiles: its data and the root fields the route reads;
\* dob is the text that str() or isoformat() of lines 59-64 gives,
\* education_json is None when it is absent or no dict, and
\* canadian_education_none tells that data.get("canadian_education") is
\* None (the data hold no such key) and not False
ProfileDoc(data, dob, marital_status, education_json) ==
    [data |-> data, dob |-> dob, marital_status |-> marital_status,
     education_json |-> education_json, canadian_education_none |-> ~data.canadian_education]

\* lines 56-64: the dob of the root when the data hold none
merged_dob(data, doc) ==
    IF data.dob = "" /\ doc.dob # "" THEN [data EXCEPT !.dob = doc.dob] ELSE data

\* lines 67-71: the marital status of the root when the data hold none, and
\* "single" when neither holds one
merged_marital_status(data, doc) ==
    IF data.marital_status = "" /\ doc.marital_status # ""
    THEN [data EXCEPT !.marital_status = doc.marital_status]
    ELSE IF data.marital_status = "" THEN [data EXCEPT !.marital_status = "single"]
    ELSE data

\* lines 74-81: the education of education_json where the data hold none
merged_education(data, doc) ==
    IF doc.education_json = None THEN data
    ELSE [data EXCEPT
             !.education_level = IF @ = "" THEN doc.education_json[1].education_level ELSE @,
             !.education_level_detail =
                 IF @ = "" THEN doc.education_json[1].education_level_detail ELSE @,
             !.canadian_education =
                 IF doc.canadian_education_none
                    /\ doc.education_json[1].canadian_education # None
                 THEN doc.education_json[1].canadian_education[1] ELSE @]

\* lines 99-106: the formats tried in turn after fromisoformat and
\* "%Y-%m-%d": "%d/%m/%Y", "%m/%d/%Y", "%Y/%m/%d", "%d-%m-%Y", "%m-%d-%Y"
OtherFormats == << <<"d", "m", "Y", "/">>, <<"m", "d", "Y", "/">>, <<"Y", "m", "d", "/">>,
                   <<"d", "m", "Y", "-">>, <<"m", "d", "Y", "-">> >>

RECURSIVE strptime_other(_, _)
strptime_other(dob_str, k) ==
    IF k > Len(OtherFormats) THEN None
    ELSE IF strptime(dob_str, SubSeq(OtherFormats[k], 1, 3), OtherFormats[k][4]) # None
    THEN strptime(dob_str, SubSeq(OtherFormats[k], 1, 3), OtherFormats[k][4])
    ELSE strptime_other(dob_str, k + 1)

\* lines 90-106: the date of the first format that reads the dob
route_dob_date(dob_str) ==
    IF fromisoformat(replace_z(dob_str)) # None THEN fromisoformat(replace_z(dob_str))
    ELSE IF strptime_ymd(dob_str) # None THEN strptime_ymd(dob_str)
    ELSE strptime_other(dob_str, 1)

\* lines 84-118: the age on the date of birth when the data hold no age
merged_age(data) ==
    IF data.age = 0 /\ data.dob # "" THEN with_age(data, age_at(route_dob_date(data.dob)))
    ELSE data

\* lines 49-118: the data of the document after the merge; a user without
\* a document has no data, and nothing is merged or defaulted
merged_profile_data(doc) ==
    IF doc = None THEN EmptyData
    ELSE merged_age(merged_education(merged_marital_status(merged_dob(doc[1].data, doc[1]),
                                                          doc[1]), doc[1]))

\* CRSComputeOverrides: each field is None when the body does not set it
NoOverrides ==
    [ age |-> None, marital_status |-> None, spouse_accompanying |-> None,
      education_level |-> None, education_level_detail |-> None,
      canadian_education |-> None, language_scores |-> None,
      canadian_work_years |-> None, foreign_work_years |-> None,
      certificate_of_qualification |-> None, provincial_nomination |-> None,
      sibling_in_canada |-> None ]

\* data.update(overrides.model_dump(exclude_none=True)), lines 126-127
updated(data, overrides) ==
    [key \in DOMAIN data |->
        IF key \in DOMAIN overrides /\ overrides[key] # None THEN overrides[key][1]
        ELSE data[key]]

\* lines 123-129: the analysis of the merged data, made again after the
\* overrides when the request has a body
route_analysis(doc, overrides) ==
    IF overrides = None THEN analyze_crs_requirements(merged_profile_data(doc))
    ELSE analyze_crs_requirements(
             updated(analyze_crs_requirements(merged_profile_data(doc)).profile_data,
                     overrides[1]))

Request(doc, overrides) == [doc |-> doc, overrides |-> overrides]

\* the documents the route finds: one with nothing known, Scenario A with
\* and without a marital status, Scenario A with language scores that name
\* no test, with a dob in place of the age (read by fromisoformat, by one
\* of the other formats, by none, or giving an age the merge rejects), a
\* complete profile, and documents that hold the dob, the marital status
\* and the education at their root
ProfileDocs == {
    Some(ProfileDoc(data, "", "", None)) : data \in {
        EmptyData,
        [ScenarioAData EXCEPT !.marital_status = ""],
        ScenarioAData,
        [ScenarioAData EXCEPT
            !.language_scores = Some(LanguageScores("", Some(75), Some(80), Some(85), Some(70)))],
        [ScenarioAData EXCEPT !.age = 0, !.dob = "1996-05-01"],
        [ScenarioAData EXCEPT !.age = 0, !.dob = "01/05/1996"],
        [ScenarioAData EXCEPT !.age = 0, !.dob = "unknown"],
        [ScenarioAData EXCEPT !.age = 0, !.dob = "2026-01-01"],
        CompleteData } }
    \cup {
    Some(ProfileDoc([ScenarioAData EXCEPT !.age = 0, !.marital_status = ""],
                    "05-13-1996", "married", None)),
    Some(ProfileDoc([ScenarioAData EXCEPT !.education_level = "", !.education_level_detail = "",
                                          !.marital_status = ""],
                    "", "", Some(EducationJson("masters", "", Some(TRUE))))),
    Some([ProfileDoc(ScenarioAData, "", "", Some(EducationJson("", "", Some(TRUE))))
             EXCEPT !.canadian_education_none = FALSE]) }

\* a request body that sets fields
BodyOverrides ==
    Some([NoOverrides EXCEPT
        !.age = Some(30),
        !.education_level = Some("bachelors"),
        !.language_scores =
            Some(Some(LanguageScores("ielts", Some(75), Some(80), Some(85), Some(70))))])

\* the requests of the model: each document without a body, a user
\* without a document, and bodies that set fields
Requests ==
    {Request(doc, overrides) : doc \in ProfileDocs, overrides \in {None}}
    \cup {
    Request(None, None),
    Request(None, BodyOverrides),
    Request(Some(ProfileDoc(ScenarioAData, "", "", None)),
            Some([NoOverrides EXCEPT !.age = Some(40), !.marital_status = Some("married"),
                                     !.spouse_accompanying = Some(TRUE)])),
    Request(Some(ProfileDoc([ScenarioAData EXCEPT !.age = 0, !.dob = "01/05/1996"], "", "", None)),
            Some([NoOverrides EXCEPT !.age = Some(0)])) }

\* the profiles the engine's results are kept for
Profiles ==
    {ScenarioA, CRSInput, NominatedCouple}
    \cup {profile_to_crs_input(route_analysis(request.doc, request.overrides).profile_data) :
            request \in Requests}

\* the profiles the callers of compute_crs pass
CallerProfiles == {ScenarioA, CRSInput}

\* crs_dynamic imports the engine as compute_crs_hardcoded.  The engine is a
\* pure function of the profile: its results for the profiles of the model
\* are computed once and looked up from then on.
HardcodedScores == [p \in Profiles |-> crs_agent_compute_crs(p)]

compute_crs_hardcoded(inp) == HardcodedScores[inp]

(***************************************************************************)
(* crs_rule_checker.py: the Rule-Consistency Monitor.                      *)
(*                                                                         *)
(* A JSON scalar is a record [t, i, s]: t is "int", "str" or "null".  What *)
(* the extraction returns is None or Some(summary), where a summary is     *)
(*   [kind |-> "dict", vals, has_recent, recent, extra]   a JSON object:   *)
(*        vals maps the signature keys it holds to their values, recent is *)
(*        its recent_changes list (has_recent: the key is present), extra  *)
(*        says that it holds keys the comparison never reads;              *)
(*   [kind |-> "list", len]                               a JSON array.    *)
(* An entry of recent_changes is [text, s]: text says that it is a string. *)
(***************************************************************************)
JInt(n) == [t |-> "int", i |-> n, s |-> ""]

JStr(s) == [t |-> "str", i |-> 0, s |-> s]

JNull == [t |-> "null", i |-> 0, s |-> ""]

\* true and false
JBool(b) == [t |-> "bool", i |-> IF b THEN 1 ELSE 0, s |-> ""]

\* a JSON number with a fraction or an exponent (a Python float), in tenths
JFloat(tenths) == [t |-> "float", i |-> tenths, s |-> ""]

\* a JSON array (a value that is no scalar and no object)
JList == [t |-> "list", i |-> 0, s |-> ""]

\* the keys of KNOWN_CRS_RULES_SIGNATURE in insertion order
SignatureKeys == <<
    "job_offer_points", "max_points", "core_max_single", "core_max_spouse",
    "age_max_single", "age_max_spouse", "education_max_single", "education_max_spouse",
    "language_max_single", "language_max_spouse", "canadian_work_max_single",
    "canadian_work_max_spouse", "provincial_nomination", "canadian_study_1_2yr",
    "canadian_study_3plus", "sibling", "certificate_qualification", "second_language" >>

KNOWN_CRS_RULES_SIGNATURE == [
    job_offer_points |-> JStr("removed_2025_03_25"),
    max_points |-> JInt(1200),
    core_max_single |-> JInt(500),
    core_max_spouse |-> JInt(460),
    age_max_single |-> JInt(110),
    age_max_spouse |-> JInt(100),
    education_max_single |-> JInt(150),
    education_max_spouse |-> JInt(140),
    language_max_single |-> JInt(160),
    language_max_spouse |-> JInt(150),
    canadian_work_max_single |-> JInt(80),
    canadian_work_max_spouse |-> JInt(70),
    provincial_nomination |-> JInt(600),
    canadian_study_1_2yr |-> JInt(15),
    canadian_study_3plus |-> JInt(30),
    sibling |-> JInt(15),
    certificate_qualification |-> JInt(50),
    second_language |-> JInt(6) ]

\* what the outside world answers to one rule check: the page a fetch
\* returns (None: not reachable, or httpx missing) and what the extraction
\* returns (None: crewai or the API key missing, the crew raised, or its
\* output was not parseable); error is None when the extraction returns
World(page, extracted, today) ==
    [page |-> page, extracted |-> extracted, today |-> today, error |-> None]

\* a world in which LLM(...), Agent(...) or Task(...) raises: they are
\* constructed before the try of line 195, so the extraction raises
RaisingWorld(page, error, today) ==
    [page |-> page, extracted |-> None, today |-> today, error |-> Some(error)]

fetch_crs_criteria_page(world) == world.page

\* _extract_rules_summary_with_ai: it raises, or returns a summary or None
extract_rules_summary_with_ai(page_content, world) ==
    [raised |-> world.error # None, error |-> world.error, value |-> world.extracted]

\* bool(official) for what the extraction returned
truthy(official) ==
    /\ official # None
    /\ IF official[1].kind = "dict"
       THEN \/ DOMAIN official[1].vals # {}
            \/ official[1].has_recent
            \/ official[1].extra
       ELSE official[1].len > 0

\* Python's == on two JSON values, one of them a value the signature or the
\* tolerance list holds: numbers (int, float and bool) are equal by value,
\* strings by their text, and null or an array equals neither
number_tenths(value) == IF value.t = "float" THEN value.i ELSE 10 * value.i

py_eq(a, b) ==
    IF a.t \in {"int", "bool", "float"} /\ b.t \in {"int", "bool", "float"}
    THEN number_tenths(a) = number_tenths(b)
    ELSE a.t = "str" /\ b.t = "str" /\ a.s = b.s

\* official_val in ("removed", 0, "0", "removed_2025_03_25")
says_removed(official_val) ==
    \E removed \in {JStr("removed"), JInt(0), JStr("0"), JStr("removed_2025_03_25")} :
        py_eq(official_val, removed)

Change(kind, key, hardcoded_val, official_val, items) ==
    [kind |-> kind, key |-> key, hardcoded |-> hardcoded_val,
     official |-> official_val, items |-> items]

\* the changes the loop over KNOWN_CRS_RULES_SIGNATURE appends, from key i on
RECURSIVE key_changes(_, _, _)
key_changes(hardcoded, vals, i) ==
    IF i > Len(SignatureKeys) THEN <<>>
    ELSE LET key == SignatureKeys[i]
             hardcoded_val == hardcoded[key]
             here ==
                 IF key \notin DOMAIN vals THEN <<>>
                 ELSE IF vals[key] = JNull THEN <<>>
                 ELSE LET official_val == vals[key] IN
                      IF key = "job_offer_points"
                      THEN IF py_eq(hardcoded_val, JStr("removed_2025_03_25"))
                           THEN IF says_removed(official_val)
                                THEN <<>>
                                ELSE <<Change("key", key, JStr("removed"), official_val, <<>>)>>
                           ELSE IF ~py_eq(hardcoded_val, official_val)
                                THEN <<Change("key", key, hardcoded_val, official_val, <<>>)>>
                                ELSE <<>>
                      ELSE IF ~py_eq(hardcoded_val, official_val)
                           THEN <<Change("key", key, hardcoded_val, official_val, <<>>)>>
                           ELSE <<>>
         IN here \o key_changes(hardcoded, vals, i + 1)

\* months between 25 March 2025 and the month `date` = <<year, month>>
months_since_removal(date) == (date[1] - 2025) * 12 + (date[2] - 3)

is_job_offer_removal(change) ==
    LET change_lower == lower(change.s)
    IN str_in("job offer", change_lower)
       /\ (str_in("removed", change_lower) \/ str_in("removal", change_lower))

\* a variant that does not read recent_changes
compare_rules_no_recent(hardcoded, official, date) ==
    IF ~truthy(official)
    THEN [raised |-> FALSE, rules_match |-> TRUE, changes |-> <<>>]
    ELSE IF official[1].kind # "dict"
    THEN [raised |-> TRUE, rules_match |-> FALSE, changes |-> <<>>]
    ELSE LET changes == key_changes(hardcoded, official[1].vals, 1)
         IN [raised |-> FALSE, rules_match |-> Len(changes) = 0, changes |-> changes]

\* _compare_rules: [raised, rules_match, changes]; raised stands for the
\* AttributeError of official.get on a non-mapping or of change.lower() on
\* an entry that is not a string
compare_rules(hardcoded, official, date) ==
    IF ~truthy(official)
    THEN [raised |-> FALSE, rules_match |-> TRUE, changes |-> <<>>]
    ELSE IF official[1].kind # "dict"
    THEN [raised |-> TRUE, rules_match |-> FALSE, changes |-> <<>>]
    ELSE LET changes == key_changes(hardcoded, official[1].vals, 1)
             recent_changes == IF official[1].has_recent THEN official[1].recent ELSE <<>>
             filtered_changes ==
                 SelectSeq(recent_changes,
                           LAMBDA change : ~(is_job_offer_removal(change)
                                            /\ months_since_removal(date) >= 6))
             all == IF filtered_changes # <<>>
                    THEN Append(changes, Change("recent", "", JNull, JNull, filtered_changes))
                    ELSE changes
         IN IF \E i \in 1..Len(recent_changes) : ~recent_changes[i].text
            THEN [raised |-> TRUE, rules_match |-> FALSE, changes |-> <<>>]
            ELSE [raised |-> FALSE, rules_match |-> Len(all) = 0, changes |-> all]

Summary(kind, vals, has_recent, recent, extra, len) ==
    [kind |-> kind, vals |-> vals, has_recent |-> has_recent, recent |-> recent,
     extra |-> extra, len |-> len]

\* the object the extraction prompt asks for, with the values of the signature
MatchingVals == [KNOWN_CRS_RULES_SIGNATURE EXCEPT !.job_offer_points = JStr("removed")]

MatchingSummary == Summary("dict", MatchingVals, TRUE, <<>>, TRUE, 0)

ChangedSummary ==
    Summary("dict", [MatchingVals EXCEPT !.max_points = JInt(1300)], TRUE, <<>>, TRUE, 0)

JobOfferText == [text |-> TRUE, s |-> "Job offer points removed"]

JobOfferSummary == Summary("dict", MatchingVals, TRUE, << JobOfferText >>, TRUE, 0)

ListSummary == Summary("list", <<>>, FALSE, <<>>, FALSE, 1)

Page == Some("crs-criteria.html")

\* the months date.today() falls in, <<year, month>>
Months == {<<2025, 8>>, <<2026, 10>>}

\* the answers of the outside world the model draws from
Worlds == {
    World(None, None, <<2026, 10>>),
    World(Page, Some(MatchingSummary), <<2026, 10>>),
    World(Page, Some(ChangedSummary), <<2026, 10>>),
    World(None, Some(JobOfferSummary), <<2025, 8>>),
    World(None, Some(JobOfferSummary), <<2026, 10>>),
    World(Page, Some(ListSummary), <<2026, 10>>),
    RaisingWorld(Page, "ValueError", <<2026, 10>>) }

\* entries of recent_changes: a text about something else, and a number
OtherText == [text |-> TRUE, s |-> "Age points raised"]

NumberEntry == [text |-> FALSE, s |-> ""]

\* summaries an extraction can return: JSON objects that are empty, hold
\* only keys the comparison does not read, hold null or differing values or
\* a job offer value (a number of points, 0, "0", false, 0.0, true, the
\* signature's marker), a number as a float (1200.0, 1200.5) or an array
\* where the signature holds an int, list recent changes (texts or not),
\* and JSON arrays
MonitorSummaries == {
    MatchingSummary, ChangedSummary, JobOfferSummary, ListSummary,
    Summary("dict", <<>>, FALSE, <<>>, FALSE, 0),
    Summary("dict", <<>>, FALSE, <<>>, TRUE, 0),
    Summary("list", <<>>, FALSE, <<>>, FALSE, 0),
    Summary("dict", [MatchingVals EXCEPT !.sibling = JNull], FALSE, <<>>, FALSE, 0),
    Summary("dict", [MatchingVals EXCEPT !.job_offer_points = JInt(50)], TRUE, <<>>, FALSE, 0),
    Summary("dict", [MatchingVals EXCEPT !.job_offer_points = JInt(0)], TRUE, <<>>, FALSE, 0),
    Summary("dict", [MatchingVals EXCEPT !.job_offer_points = JStr("0")], TRUE, <<>>, FALSE, 0),
    Summary("dict", KNOWN_CRS_RULES_SIGNATURE, TRUE, <<>>, FALSE, 0),
    Summary("dict", [MatchingVals EXCEPT !.max_points = JStr("1200")], TRUE, <<>>, FALSE, 0),
    Summary("dict", [MatchingVals EXCEPT !.job_offer_points = JBool(FALSE)], TRUE, <<>>, FALSE, 0),
    Summary("dict", [MatchingVals EXCEPT !.job_offer_points = JFloat(0)], TRUE, <<>>, FALSE, 0),
    Summary("dict", [MatchingVals EXCEPT !.job_offer_points = JBool(TRUE)], TRUE, <<>>, FALSE, 0),
    Summary("dict", [MatchingVals EXCEPT !.max_points = JFloat(12000)], TRUE, <<>>, FALSE, 0),
    Summary("dict", [MatchingVals EXCEPT !.max_points = JFloat(12005)], TRUE, <<>>, FALSE, 0),
    Summary("dict", [MatchingVals EXCEPT !.sibling = JList], TRUE, <<>>, FALSE, 0),
    Summary("dict", MatchingVals, TRUE, << OtherText >>, FALSE, 0),
    Summary("dict", MatchingVals, TRUE, <<JobOfferText, OtherText>>, FALSE, 0),
    Summary("dict", MatchingVals, TRUE, << NumberEntry >>, FALSE, 0),
    Summary("dict", [MatchingVals EXCEPT !.max_points = JInt(1300)], TRUE, <<OtherText, NumberEntry>>, FALSE, 0) }

\* the days datetime.utcnow() falls on in a direct call, <<year, month, day>>:
\* before September 2025, in September 2025 before and after the 25th, and
\* a year later
Dates == {<<2025, 8, 30>>, <<2025, 9, 10>>, <<2025, 9, 26>>, <<2026, 10, 30>>}

\* the answers of the outside world a direct call of check_crs_rules draws from
MonitorWorlds ==
    {World(page, extracted, today) :
        page \in {None, Page},
        extracted \in {None} \cup {Some(summary) : summary \in MonitorSummaries},
        today \in Dates}
    \cup {RaisingWorld(page, "ValueError", today) : page \in {None, Page}, today \in Dates}

\* _compare_rules is a pure function of the summary and the month: its
\* results for the summaries of the model are computed once and looked up
RuleComparisons ==
    [official \in {w.extracted : w \in Worlds}, date \in Months |->
        compare_rules(KNOWN_CRS_RULES_SIGNATURE, official, date)]

CRSRuleCheckResult(rules_match, use_hardcoded, changes_detected, official_rules_summary, last_checked, error) ==
    [ rules_match |-> rules_match,
      use_hardcoded |-> use_hardcoded,
      changes_detected |-> changes_detected,
      official_rules_summary |-> official_rules_summary,
      last_checked |-> last_checked,
      error |-> error ]

\* the same for the summaries and days of a direct call of check_crs_rules
MonitorComparisons ==
    [official \in {None} \cup {Some(summary) : summary \in MonitorSummaries}, date \in Dates |->
        compare_rules(KNOWN_CRS_RULES_SIGNATURE, official, date)]

\* _compare_rules(KNOWN_CRS_RULES_SIGNATURE, official_rules) when utcnow()
\* is `date`, a month of Months or a day of Dates
rule_comparison(official_rules, date) ==
    IF Len(date) = 2 THEN RuleComparisons[official_rules, date]
    ELSE MonitorComparisons[official_rules, date]

\* a variant that always prefers the engine, changes or not
check_crs_rules_always_hardcoded(force_check, world, t) ==
    LET page_content == fetch_crs_criteria_page(world)
        extraction == extract_rules_summary_with_ai(page_content, world)
        official_rules == extraction.value
        cmp == rule_comparison(official_rules, world.today)
    IN IF extraction.raised
       THEN CRSRuleCheckResult(TRUE, TRUE, <<>>, None, t, extraction.error)
       ELSE IF cmp.raised
       THEN CRSRuleCheckResult(TRUE, TRUE, <<>>, None, t, Some("AttributeError"))
       ELSE CRSRuleCheckResult(cmp.rules_match, TRUE, cmp.changes, official_rules, t, None)

\* a variant whose except branch leaves the error field unset
check_crs_rules_silent(force_check, world, t) ==
    LET page_content == fetch_crs_criteria_page(world)
        extraction == extract_rules_summary_with_ai(page_content, world)
        official_rules == extraction.value
        cmp == rule_comparison(official_rules, world.today)
    IN IF extraction.raised
       THEN CRSRuleCheckResult(TRUE, TRUE, <<>>, None, t, None)
       ELSE IF cmp.raised
       THEN CRSRuleCheckResult(TRUE, TRUE, <<>>, None, t, None)
       ELSE CRSRuleCheckResult(cmp.rules_match, cmp.rules_match, cmp.changes,
                               official_rules, t, None)

\* check_crs_rules at minute t
check_crs_rules(force_check, world, t) ==
    LET page_content == fetch_crs_criteria_page(world)
        extraction == extract_rules_summary_with_ai(page_content, world)
        official_rules == extraction.value
        cmp == rule_comparison(official_rules, world.today)
    IN IF extraction.raised
       THEN CRSRuleCheckResult(TRUE, TRUE, <<>>, None, t, extraction.error)
       ELSE IF cmp.raised
       THEN CRSRuleCheckResult(TRUE, TRUE, <<>>, None, t, Some("AttributeError"))
       ELSE CRSRuleCheckResult(cmp.rules_match, cmp.rules_match, cmp.changes,
                               official_rules, t, None)

(***************************************************************************)
(* crs_ai_calculator.py: the Alternate Computation.                        *)
(*                                                                         *)
(* What the AI service answers to one call is a record `ai`:               *)
(*   kind = "no_crewai", "no_api_key"  the RuntimeError of lines 30-35;    *)
(*   kind = "crew_raises"              crew.kickoff() raised;              *)
(*   kind = "invalid_json"             no JSON object in the raw output;   *)
(*   kind = "not_a_dict"               JSON that is no object (data.get    *)
(*                                     raises AttributeError);             *)
(*   kind = "dict"                     a JSON object: has is the set of    *)
(*        keys it holds, non_int the keys whose value is not of the type   *)
(*        CRSResult declares, raw the JSON value of each of these keys,    *)
(*        and the other fields are the values.  A missing_or_defaulted     *)
(*        that is a JSON array with an entry that is no string has the raw *)
(*        value JList, and the field holds its strings.                    *)
(***************************************************************************)
AiDisclaimer ==
    "This score was calculated using AI based on current official rules. Official IRCC system results govern. See Canada.ca Express Entry CRS calculator. Not legal advice."

AiRaise(kind) ==
    [kind |-> kind, has |-> {}, non_int |-> {}, total |-> 0, core_human_capital |-> 0,
     spouse_factors |-> 0, skill_transferability |-> 0, additional_points |-> 0,
     breakdown |-> <<>>, missing_or_defaulted |-> <<>>, raw |-> << >>]

AiError(ai) ==
    CASE ai.kind \in {"no_crewai", "no_api_key"} -> "RuntimeError"
      [] ai.kind = "invalid_json" -> "ValueError"
      [] ai.kind = "not_a_dict" -> "AttributeError"
      [] OTHER -> "Exception"

\* data.get(key, default) for a field of the decoded object
data_get(ai, key, default) == IF key \in ai.has THEN ai[key] ELSE default

\* the mapping f on the keys of keys
restricted(f, keys) == IF keys = {} THEN << >> ELSE [k \in keys |-> f[k]]

\* compute_crs_with_ai: [raised, error, result]
compute_crs_with_ai(inp, official_rules, ai) ==
    IF ai.kind # "dict"
    THEN [raised |-> TRUE, error |-> AiError(ai), result |-> <<>>]
    ELSE [raised |-> FALSE, error |-> "",
          result |-> [CRSResult(
              data_get(ai, "total", 0),
              data_get(ai, "core_human_capital", 0),
              data_get(ai, "spouse_factors", 0),
              data_get(ai, "skill_transferability", 0),
              data_get(ai, "additional_points", 0),
              data_get(ai, "breakdown", <<>>),
              data_get(ai, "missing_or_defaulted", <<>>),
              AiDisclaimer,
              ai.non_int \cap ai.has)
              EXCEPT !.raw = restricted(ai.raw, ai.non_int \cap ai.has)]]

\* a JSON object whose ill-typed values are null
AiDict(has, non_int, total, core, spouse, transfer, additional, breakdown) ==
    [kind |-> "dict", has |-> has, non_int |-> non_int, total |-> total,
     core_human_capital |-> core, spouse_factors |-> spouse,
     skill_transferability |-> transfer, additional_points |-> additional,
     breakdown |-> breakdown, missing_or_defaulted |-> <<>>,
     raw |-> restricted([k \in non_int |-> JNull], non_int)]

\* the JSON object ai with the value of key replaced by an ill-typed one
AiWith(ai, key, value) ==
    [ai EXCEPT !.non_int = @ \cup {key},
               !.raw = (key :> value) @@ restricted(@, DOMAIN @ \ {key})]

AiKeys == {"total", "core_human_capital", "spouse_factors", "skill_transferability",
           "additional_points", "breakdown", "missing_or_defaulted"}

AiBreakdown == [age |-> 105, education |-> 120]

AiAnswers == {
    AiRaise("no_crewai"),
    AiDict(AiKeys, {}, 508, 408, 0, 100, 0, AiBreakdown),
    AiDict(AiKeys \ {"total"}, {}, 0, 408, 0, 100, 0, AiBreakdown),
    AiDict(AiKeys, {}, 1500, 1350, 0, 150, 0, AiBreakdown),
    AiDict(AiKeys, {"total"}, 0, 408, 0, 100, 0, AiBreakdown),
    AiDict(AiKeys, {"breakdown"}, 508, 408, 0, 100, 0, <<>>) }

\* answers that the response model of POST /crs/compute tells apart from
\* the others: a total that is a str of digits, and a missing_or_defaulted
\* that is a str
ResponseAnswers == {
    AiWith(AiDict(AiKeys, {}, 0, 408, 0, 100, 0, AiBreakdown), "total", JStr(" 508 ")),
    AiWith(AiDict(AiKeys, {}, 508, 408, 0, 100, 0, AiBreakdown),
           "missing_or_defaulted", JStr("none")) }

(***************************************************************************)
(* crs_dynamic.py: the Method Selector and its cache.                      *)
(***************************************************************************)
\* CACHE_DURATION = timedelta(hours=1), in minutes
CACHE_DURATION == 60

\* a variant that already takes a cache of exactly CACHE_DURATION for stale
should_refresh_cache_early(force_check) ==
    IF force_check THEN TRUE
    ELSE IF rule_check_cache = None \/ cache_timestamp = None THEN TRUE
    ELSE IF now - cache_timestamp[1] >= CACHE_DURATION THEN TRUE
    ELSE FALSE

should_refresh_cache(force_check) ==
    IF force_check THEN TRUE
    ELSE IF rule_check_cache = None \/ cache_timestamp = None THEN TRUE
    ELSE IF now - cache_timestamp[1] > CACHE_DURATION THEN TRUE
    ELSE FALSE

\* _get_rule_check: the cache and timestamp it leaves, whether it called
\* check_crs_rules, the value it returns (the cache it leaves) and the
\* latest value it read from the clock. The clock is read three times:
\* `now` at line 36, reads[1] by check_crs_rules for last_checked
\* (crs_rule_checker.py line 307 or 314), and reads[2] at line 47
get_rule_check(force_check, world, reads) ==
    IF should_refresh_cache(force_check)
    THEN [cache |-> Some(check_crs_rules(force_check, world, reads[1])),
          timestamp |-> Some(reads[2]), checked |-> TRUE, t |-> reads[2]]
    ELSE [cache |-> rule_check_cache, timestamp |-> cache_timestamp, checked |-> FALSE,
          t |-> now]

\* d[key] = value on a dict
dict_set(d, key, value) == (key :> value) @@ d

\* result.breakdown["calculation_method"] = tag
tagged(result, tag) ==
    [result EXCEPT !.breakdown = dict_set(result.breakdown, "calculation_method", tag)]

NoCall == [op |-> "none"]

\* what a compute_crs call did: its arguments, the minute it ran at, whether
\* it returned or raised, the result, how often it called check_crs_rules
\* and compute_crs_with_ai, the rule check it read (None when it read none)
\* and the AI answer it got (None when it asked none)
Call(inp, force_rule_check, force_ai_calculation, force_hardcoded, t, outcome, result, monitor_calls, ai_calls, rule_check, ai) ==
    [ op |-> "compute_crs",
      inp |-> inp,
      force_rule_check |-> force_rule_check,
      force_ai_calculation |-> force_ai_calculation,
      force_hardcoded |-> force_hardcoded,
      t |-> t,
      outcome |-> outcome,
      result |-> result,
      monitor_calls |-> monitor_calls,
      ai_calls |-> ai_calls,
      rule_check |-> rule_check,
      ai |-> ai ]

\* a variant that tests force_ai_calculation before force_hardcoded
path_ai_first(force_ai_calculation, force_hardcoded) ==
    IF force_ai_calculation THEN "ai_forced"
    ELSE IF force_hardcoded THEN "hardcoded_forced"
    ELSE "default"

\* the order in which compute_crs tests its override flags (lines 71 and 77)
path(force_ai_calculation, force_hardcoded) ==
    IF force_hardcoded THEN "hardcoded_forced"
    ELSE IF force_ai_calculation THEN "ai_forced"
    ELSE "default"

\* a variant that prefers the engine only when the rule check has failed
prefers_hardcoded_on_error(rule_check) ==
    rule_check.error # None

\* the test of line 101
prefers_hardcoded(rule_check) ==
    \/ rule_check.use_hardcoded
    \/ rule_check.changes_detected = <<>>
    \/ Len(rule_check.changes_detected) = 0

\* lines 125-127: the AI result tagged; the caller has checked that its
\* breakdown is a dict
ai_based(result, rule_check) ==
    [result EXCEPT
        !.breakdown = dict_set(dict_set(dict_set(@,
            "calculation_method", "ai_based"),
            "rule_changes", rule_check.changes_detected),
            "rule_check_timestamp", rule_check.last_checked)]

\* a variant that does not mark the failure in missing_or_defaulted
ai_fallback_unmarked(inp, rule_check, error) ==
    [compute_crs_hardcoded(inp) EXCEPT
        !.breakdown = dict_set(dict_set(dict_set(@,
            "calculation_method", "hardcoded_fallback"),
            "ai_calculation_error", error),
            "rule_changes_detected", rule_check.changes_detected)]

\* lines 133-138: the engine's result after the AI calculation failed
ai_fallback(inp, rule_check, error) ==
    [compute_crs_hardcoded(inp) EXCEPT
        !.breakdown = dict_set(dict_set(dict_set(@,
            "calculation_method", "hardcoded_fallback"),
            "ai_calculation_error", error),
            "rule_changes_detected", rule_check.changes_detected),
        !.missing_or_defaulted = Append(@, "ai_calculation_failed")]

\* the default path once the rule check is in hand (lines 98-138):
\* the result and the number of calls of compute_crs_with_ai
decide(inp, rule_check, ai) ==
    LET changes == rule_check.changes_detected IN
    IF prefers_hardcoded(rule_check)
    THEN LET result == tagged(compute_crs_hardcoded(inp), "hardcoded")
         IN [ai_calls |-> 0,
             result |-> IF changes # <<>>
                        THEN [result EXCEPT !.breakdown = dict_set(@, "rule_check_warning",
                                 "Rules may have changed, but using hardcoded implementation")]
                        ELSE result]
    ELSE IF (rule_check.error # None \/ ~rule_check.rules_match)
            /\ (changes = <<>> \/ Len(changes) = 0)
    THEN [ai_calls |-> 0,
          result |-> [tagged(compute_crs_hardcoded(inp), "hardcoded_fallback")
                         EXCEPT !.breakdown = dict_set(@, "rule_check_note",
                             "Rule check uncertain, using hardcoded for determinism")]]
    ELSE LET r == compute_crs_with_ai(inp, rule_check.official_rules_summary, ai)
         IN [ai_calls |-> 1,
             result |->
                 IF r.raised
                 THEN ai_fallback(inp, rule_check, r.error)
                 ELSE IF "breakdown" \in r.result.non_int
                 THEN \* item assignment on a breakdown that is no dict: TypeError
                      ai_fallback(inp, rule_check, "TypeError")
                 ELSE ai_based(r.result, rule_check)]

\* crs_dynamic.compute_crs, one whole call
compute_crs(inp, force_rule_check, force_ai_calculation, force_hardcoded, world, ai, reads) ==
    \E p \in {path(force_ai_calculation, force_hardcoded)} :
    \E got \in {get_rule_check(IF p = "ai_forced" THEN TRUE ELSE force_rule_check, world, reads)} :
    \E checks \in {IF got.checked THEN 1 ELSE 0} :
    IF p = "hardcoded_forced"
    THEN /\ call' = Call(inp, force_rule_check, force_ai_calculation, force_hardcoded, now,
                         "returned", tagged(compute_crs_hardcoded(inp), "hardcoded_forced"),
                         0, 0, None, None)
         /\ UNCHANGED <<rule_check_cache, cache_timestamp, now>>
    ELSE IF p = "ai_forced"
    THEN \E r \in {compute_crs_with_ai(inp, IF got.cache = None THEN None
                                             ELSE got.cache[1].official_rules_summary, ai)} :
            /\ rule_check_cache' = got.cache
            /\ cache_timestamp' = got.timestamp
            /\ now' = got.t
            /\ call' = Call(inp, force_rule_check, force_ai_calculation, force_hardcoded, now,
                            IF r.raised THEN "raised" ELSE "returned",
                            IF r.raised THEN [error |-> r.error] ELSE r.result,
                            checks, 1, got.cache, Some(ai))
    ELSE /\ rule_check_cache' = got.cache
         /\ cache_timestamp' = got.timestamp
         /\ now' = got.t
         /\ IF got.cache = None
            THEN \* reading a field of None raises inside the try of line 88
                 call' = Call(inp, force_rule_check, force_ai_calculation, force_hardcoded,
                              now, "returned",
                              tagged(compute_crs_hardcoded(inp), "hardcoded_error_fallback"),
                              checks, 0, None, None)
            ELSE \E d \in {decide(inp, got.cache[1], ai)} :
                    call' = Call(inp, force_rule_check, force_ai_calculation,
                                 force_hardcoded, now, "returned", d.result,
                                 checks, d.ai_calls, got.cache,
                                 IF d.ai_calls = 0 THEN None ELSE Some(ai))

\* clear_rule_check_cache, one whole call
clear_rule_check_cache ==
    /\ rule_check_cache' = None
    /\ cache_timestamp' = None
    /\ call' = [op |-> "clear_rule_check_cache", t |-> now, monitor_calls |-> 0, ai_calls |-> 0]
    /\ UNCHANGED now

(***************************************************************************)
(* Callers on several threads.  A thread stands at a line of               *)
(* _should_refresh_cache, _get_rule_check or clear_rule_check_cache; each   *)
(* read and each write of a module global is a step of its own.            *)
(***************************************************************************)
MaxThreads == 2

Threads == 1..MaxThreads

\* pc is the line the thread executes next, id numbers its call,
\* rule_check is what its check_crs_rules returned (None before), and
\* outcome is how its last call ended; caller is the function that called
\* _get_rule_check ("none": clear_rule_check_cache runs on the thread), and
\* fresh tells that _should_refresh_cache found the cache fresh; clock is
\* the value of datetime.utcnow() the thread holds between reading it and
\* using it (0 when it holds none)
Thread(pc, id, force_check, rule_check, outcome) ==
    [pc |-> pc, id |-> id, force_check |-> force_check, rule_check |-> rule_check,
     outcome |-> outcome, caller |-> "none", fresh |-> FALSE, clock |-> 0]

Idle == Thread("idle", 0, FALSE, None, "none")

(***************************************************************************)
(* The inputs the model draws from.                                        *)
(***************************************************************************)
TickMinutes == 60

MaxNow == 120

\* the minutes the clock gains, over a run, while calls are being served
MaxSkew == 1

\* what datetime.utcnow() can return when an earlier read returned t: the
\* clock does not go back
clock_after(t) == {u \in t..(t + MaxSkew) : u % TickMinutes <= MaxSkew /\ u <= MaxNow}

\* the two later reads of a _get_rule_check that refreshes (last_checked,
\* then _cache_timestamp); a call that does not refresh reads no more
clock_reads(refreshes) ==
    IF refreshes
    THEN {reads \in clock_after(now) \X clock_after(now) : reads[1] <= reads[2]}
    ELSE {<<now, now>>}

(***************************************************************************)
(* The state machine.                                                      *)
(***************************************************************************)
Init ==
    /\ rule_check_cache = None
    /\ cache_timestamp = None
    /\ now = 0
    /\ call = NoCall
    /\ log = <<>>
    /\ forced_seen = None
    /\ threads = [p \in Threads |-> Idle]
    /\ response = None
    /\ in_flight = EmptyBag

\* does this call reach check_crs_rules, and compute_crs_with_ai?
asks_monitor(force_rule_check, force_ai_calculation, force_hardcoded) ==
    ~force_hardcoded /\ should_refresh_cache(force_ai_calculation \/ force_rule_check)

asks_ai(force_rule_check, force_ai_calculation, force_hardcoded, world) ==
    /\ ~force_hardcoded
    /\ \/ force_ai_calculation
       \/ LET got == get_rule_check(force_rule_check, world, <<now, now>>)
          IN got.cache # None /\ ~prefers_hardcoded(got.cache[1])

\* the answers of the outside world that a call with these flags can read
worlds_read(force_rule_check, force_ai_calculation, force_hardcoded) ==
    IF asks_monitor(force_rule_check, force_ai_calculation, force_hardcoded)
    THEN Worlds ELSE {World(None, None, <<2026, 10>>)}

ai_read(force_rule_check, force_ai_calculation, force_hardcoded, world) ==
    IF asks_ai(force_rule_check, force_ai_calculation, force_hardcoded, world)
    THEN AiAnswers ELSE {AiRaise("no_crewai")}

\* the same for the specifications about the cache, where the AI answer
\* only tells a call that returns from one that raises: the service is
\* missing, or it answers a result that fits the schema
cache_ai_read(force_rule_check, force_ai_calculation, force_hardcoded, world) ==
    IF asks_ai(force_rule_check, force_ai_calculation, force_hardcoded, world)
    THEN {AiRaise("no_crewai"), AiDict(AiKeys, {}, 508, 408, 0, 100, 0, AiBreakdown)}
    ELSE {AiRaise("no_crewai")}

\* a caller runs compute_crs
ComputeScore ==
    /\ \E inp \in CallerProfiles, frc \in BOOLEAN, fai \in BOOLEAN, fh \in BOOLEAN :
         \E world \in worlds_read(frc, fai, fh) :
           \E ai \in ai_read(frc, fai, fh, world) :
             \E reads \in clock_reads(asks_monitor(frc, fai, fh)) :
               compute_crs(inp, frc, fai, fh, world, ai, reads)
    /\ UNCHANGED <<log, forced_seen, threads, response, in_flight>>

\* time passes between calls
Tick ==
    /\ now + TickMinutes <= MaxNow
    /\ now' = now + TickMinutes
    /\ UNCHANGED <<rule_check_cache, cache_timestamp, call, log, forced_seen, threads, response, in_flight>>

Next == ComputeScore \/ Tick

Spec == Init /\ [][Next]_vars

(***************************************************************************)
(* Observers.  The program keeps no history; the claims about several      *)
(* calls are stated over a record of the calls made so far.                *)
(***************************************************************************)
\* the three states of the cache that _should_refresh_cache tells apart
cache_state ==
    IF rule_check_cache = None \/ cache_timestamp = None THEN "Empty"
    ELSE IF now - cache_timestamp[1] > CACHE_DURATION THEN "Stale"
    ELSE "Fresh"

\* a call with none of the three override flags
plain(c) == ~c.force_rule_check /\ ~c.force_ai_calculation /\ ~c.force_hardcoded

\* the same three states with the age of the cache measured from the
\* last_checked of the cached rule check
checked_state ==
    IF rule_check_cache = None \/ cache_timestamp = None THEN "Empty"
    ELSE IF now - rule_check_cache[1].last_checked > CACHE_DURATION THEN "Stale"
    ELSE "Fresh"

\* the record of one compute_crs call: the minute it started at, its calls
\* of check_crs_rules, the state of the cache before it (before: by
\* _cache_timestamp, checked_before: by last_checked), its force_hardcoded,
\* and whether clear_rule_check_cache ran after it
LogEntry(c, before, checked_before) ==
    [t |-> c.t, monitor_calls |-> c.monitor_calls, before |-> before,
     checked_before |-> checked_before, force_hardcoded |-> c.force_hardcoded,
     cleared |-> FALSE]

\* log keeps the latest run of calls of the shape  plain, plain within
\* CACHE_DURATION of it, then one with force_rule_check; any other call
\* starts the record afresh
log_next(c, before, checked_before) ==
    LET e == LogEntry(c, before, checked_before) IN
    IF plain(c)
    THEN IF Len(log) \in {1, 2} /\ c.t - log[Len(log)].t <= CACHE_DURATION
         THEN <<log[Len(log)], e>>
         ELSE << e >>
    ELSE IF c.force_rule_check /\ Len(log) = 2
    THEN <<log[1], log[2], e>>
    ELSE <<>>

\* an invalidation after the first or the second plain call is kept in the
\* record, with the call it follows; one after the third call starts the
\* record afresh
log_cleared ==
    IF Len(log) \in {1, 2} THEN [log EXCEPT ![Len(log)].cleared = TRUE] ELSE <<>>

\* a caller runs compute_crs, and the call is entered in log
ComputeScoreLogged ==
    /\ \E inp \in CallerProfiles, frc \in BOOLEAN, fai \in BOOLEAN, fh \in BOOLEAN :
         \E world \in worlds_read(frc, fai, fh) :
           \E ai \in cache_ai_read(frc, fai, fh, world) :
             \E reads \in clock_reads(asks_monitor(frc, fai, fh)) :
               compute_crs(inp, frc, fai, fh, world, ai, reads)
    /\ log' = log_next(call', cache_state, checked_state)
    /\ UNCHANGED <<forced_seen, threads, response, in_flight>>

\* a caller runs clear_rule_check_cache between two compute_crs calls
InvalidateLogged ==
    /\ clear_rule_check_cache
    /\ log' = log_cleared
    /\ UNCHANGED <<forced_seen, threads, response, in_flight>>

NextCache == ComputeScoreLogged \/ InvalidateLogged \/ Tick

SpecCache == Init /\ [][NextCache]_vars

\* forced_seen keeps one force_hardcoded call made earlier, any of them:
\* its profile, what it returned, and whether the cache was empty then
Seen(c, empty) ==
    Some([inp |-> c.inp, outcome |-> c.outcome, result |-> c.result, empty |-> empty])

\* a caller runs compute_crs; a forced call may be the one that is kept
ComputeScoreSeen ==
    /\ \E inp \in CallerProfiles, frc \in BOOLEAN, fai \in BOOLEAN, fh \in BOOLEAN :
         \E world \in worlds_read(frc, fai, fh) :
           \E ai \in cache_ai_read(frc, fai, fh, world) :
             \E reads \in clock_reads(asks_monitor(frc, fai, fh)) :
               compute_crs(inp, frc, fai, fh, world, ai, reads)
    /\ \/ forced_seen' = forced_seen
       \/ /\ call'.force_hardcoded
          /\ forced_seen = None
          /\ forced_seen' = Seen(call', cache_state = "Empty")
    /\ UNCHANGED <<log, threads, response, in_flight>>

NextForced == ComputeScoreSeen \/ Tick

SpecForced == Init /\ [][NextForced]_vars

(***************************************************************************)
(* Properties of crs_dynamic.compute_crs.                                  *)
(***************************************************************************)
IsCall == call.op = "compute_crs"

Returned == IsCall /\ call.outcome = "returned"

HardcodedForcedPath == IsCall /\ call.force_hardcoded

AiForcedPath == IsCall /\ ~call.force_hardcoded /\ call.force_ai_calculation

DefaultPath == IsCall /\ ~call.force_hardcoded /\ ~call.force_ai_calculation

\* the rule check a call read
RuleCheck == call.rule_check[1]

ConcreteMismatch(v) == ~v.rules_match /\ v.changes_detected # <<>>

\* breakdown["calculation_method"] of a result is tag
HasTag(r, tag) ==
    /\ "breakdown" \notin r.non_int
    /\ "calculation_method" \in DOMAIN r.breakdown
    /\ r.breakdown["calculation_method"] = tag

\* r has the total and the four subtotals of the engine's result for inp
SameNumbers(r, inp) ==
    LET e == crs_agent_compute_crs(inp) IN
    /\ r.non_int \cap {"total", "core_human_capital", "spouse_factors",
                       "skill_transferability", "additional_points"} = {}
    /\ r.total = e.total
    /\ r.core_human_capital = e.core_human_capital
    /\ r.spouse_factors = e.spouse_factors
    /\ r.skill_transferability = e.skill_transferability
    /\ r.additional_points = e.additional_points

\* r is the engine's result for inp with nothing but the tag added
EngineResultTagged(r, inp, tag) ==
    LET e == crs_agent_compute_crs(inp) IN
    /\ SameNumbers(r, inp)
    /\ r.missing_or_defaulted = e.missing_or_defaulted
    /\ r.disclaimer = e.disclaimer
    /\ DOMAIN r.breakdown = DOMAIN e.breakdown \cup {"calculation_method"}
    /\ \A k \in DOMAIN e.breakdown : r.breakdown[k] = e.breakdown[k]
    /\ r.breakdown["calculation_method"] = tag

\* C1: compute_crs never propagates an exception; every call returns a
\* CRSResult, whatever the flags, the cache, the rule check and the AI do.
C1_NeverRaises == IsCall => call.outcome = "returned"

\* C2: on the default path compute_crs_with_ai is called only if the rule
\* check read by the call reports that the rules do not match and lists
\* changes; in every other case it is not called and the result is the
\* engine's result tagged "hardcoded".
C2_AiOnlyOnConcreteMismatch ==
    DefaultPath =>
        /\ call.rule_check # None
        /\ (call.ai_calls > 0 => ConcreteMismatch(RuleCheck))
        /\ (~ConcreteMismatch(RuleCheck) =>
               /\ call.ai_calls = 0
               /\ Returned
               /\ EngineResultTagged(call.result, call.inp, "hardcoded"))

\* a default call read a rule check that holds an official summary matching
\* the known rules, and returned the engine's result without asking the AI
C2_Witness ==
    /\ DefaultPath
    /\ call.rule_check # None
    /\ RuleCheck.rules_match
    /\ RuleCheck.official_rules_summary # None
    /\ RuleCheck.error = None
    /\ call.ai_calls = 0
    /\ HasTag(call.result, "hardcoded")
    /\ call.result.total = 508

\* C4: every result compute_crs returns has 0 <= total <= 1200 and
\* 0 <= skill_transferability <= 100, whichever method produced it.
C4_ScoreWithinBounds ==
    Returned =>
        /\ call.result.non_int \cap {"total", "skill_transferability"} = {}
        /\ call.result.total >= 0
        /\ call.result.total <= 1200
        /\ call.result.skill_transferability >= 0
        /\ call.result.skill_transferability <= 100

\* C5: a call with force_hardcoded, whatever the other two flags, calls
\* neither check_crs_rules nor compute_crs_with_ai, leaves the cached rule
\* check and its timestamp as they were, and returns the engine's result
\* tagged "hardcoded_forced".
C5_ForcedHardcodedSkipsMonitor ==
    [][ (call'.op = "compute_crs" /\ call'.force_hardcoded) =>
            /\ rule_check_cache' = rule_check_cache
            /\ cache_timestamp' = cache_timestamp
            /\ call'.monitor_calls = 0
            /\ call'.ai_calls = 0
            /\ call'.outcome = "returned"
            /\ EngineResultTagged(call'.result, call'.inp, "hardcoded_forced") ]_vars

\* a call with all three flags set ran on a stale cache and returned the
\* engine's result, the cache still stale
C5_Witness ==
    /\ HardcodedForcedPath
    /\ call.force_ai_calculation
    /\ call.force_rule_check
    /\ rule_check_cache # None
    /\ cache_timestamp # None
    /\ call.t - cache_timestamp[1] > CACHE_DURATION
    /\ call.monitor_calls = 0
    /\ HasTag(call.result, "hardcoded_forced")

\* C7: a call with force_ai_calculation and without force_hardcoded calls
\* check_crs_rules exactly once, the cache then holds that rule check, it
\* calls compute_crs_with_ai, and the result it returns is tagged "ai_based".
C7_ForcedAiTagged ==
    AiForcedPath =>
        /\ call.monitor_calls = 1
        /\ call.rule_check # None
        /\ RuleCheck.last_checked \in clock_after(call.t)
        /\ call.ai_calls = 1
        /\ (Returned => HasTag(call.result, "ai_based"))

\* the rule check failed: it reports an internal failure in its error field
MonitorFailed(v) == v.error # None

\* C8: a default call whose rule check failed returns the engine's numbers
\* tagged "hardcoded_error_fallback" and does not call compute_crs_with_ai.
C8_MonitorFailureTagged ==
    (DefaultPath /\ call.rule_check # None /\ MonitorFailed(RuleCheck)) =>
        /\ Returned
        /\ call.ai_calls = 0
        /\ SameNumbers(call.result, call.inp)
        /\ HasTag(call.result, "hardcoded_error_fallback")

\* the AI calculation asked by a call failed: compute_crs_with_ai raised, or
\* tagging its result raised
AiFailed(a) ==
    /\ a # None
    /\ \/ a[1].kind # "dict"
       \/ "breakdown" \in a[1].non_int \cap a[1].has

\* C9: when a default call reads a rule check with concrete mismatches and the
\* AI calculation fails, it returns the engine's numbers tagged
\* "hardcoded_fallback", with "ai_calculation_failed" appended to the engine's
\* missing_or_defaulted, and the cache holds the rule check the call read
\* (the one it held before, when the call did not refresh it).
C9_AiFailureFallsBack ==
    [][ (/\ call'.op = "compute_crs"
         /\ ~call'.force_hardcoded
         /\ ~call'.force_ai_calculation
         /\ call'.rule_check # None
         /\ ConcreteMismatch(call'.rule_check[1])
         /\ AiFailed(call'.ai)) =>
            /\ call'.outcome = "returned"
            /\ SameNumbers(call'.result, call'.inp)
            /\ HasTag(call'.result, "hardcoded_fallback")
            /\ call'.result.missing_or_defaulted =
                   Append(crs_agent_compute_crs(call'.inp).missing_or_defaulted,
                          "ai_calculation_failed")
            /\ rule_check_cache' = call'.rule_check
            /\ (call'.monitor_calls = 0 =>
                   /\ rule_check_cache' = rule_check_cache
                   /\ cache_timestamp' = cache_timestamp) ]_vars

\* a default call on a fresh cache that lists a change asked the AI, which
\* was not available, and fell back to the engine
C9_Witness ==
    /\ DefaultPath
    /\ call.monitor_calls = 0
    /\ call.rule_check # None
    /\ ConcreteMismatch(RuleCheck)
    /\ call.ai_calls = 1
    /\ AiFailed(call.ai)
    /\ call.ai[1].kind = "no_crewai"
    /\ HasTag(call.result, "hardcoded_fallback")
    /\ call.result.total = 508
    /\ rule_check_cache = call.rule_check

\* the AI's answer is a JSON object that lacks a field of CRSResult or holds
\* a value of another type in one
SchemaViolation(a) ==
    /\ a # None
    /\ a[1].kind = "dict"
    /\ \/ {"total", "core_human_capital", "spouse_factors", "skill_transferability",
           "additional_points", "breakdown"} \ a[1].has # {}
       \/ a[1].non_int \cap a[1].has # {}

\* C10: an AI answer that violates the CRSResult schema is a failure: the
\* call takes the fallback and returns nothing tagged "ai_based".
C10_SchemaViolationIsFailure ==
    (DefaultPath /\ Returned /\ SchemaViolation(call.ai)) =>
        /\ ~HasTag(call.result, "ai_based")
        /\ HasTag(call.result, "hardcoded_fallback")

(***************************************************************************)
(* Properties over several calls.                                          *)
(***************************************************************************)
\* C3 as stated: two successive calls without override flags, the second
\* within CACHE_DURATION of the first, call check_crs_rules at most once in
\* total, whatever the cache was before the first; a call with
\* force_rule_check that follows them calls it exactly once more, whether
\* the cache is Empty, Fresh or Stale then.
C3_ThirdCallChecksOnce ==
    /\ Len(log) >= 2 => log[1].monitor_calls + log[2].monitor_calls <= 1
    /\ Len(log) = 3 => log[3].monitor_calls = 1

\* C3 amended: two successive calls without override flags, the second
\* within CACHE_DURATION of the first and no invalidation between them,
\* call check_crs_rules at most once in total, whatever the cache was
\* before the first; a call with force_rule_check that follows them calls
\* it exactly once more, whether the cache is Empty, Fresh or Stale then,
\* unless the call also has force_hardcoded: then it calls it not at all.
C3_RefreshCount ==
    /\ (Len(log) >= 2 /\ ~log[1].cleared) =>
          log[1].monitor_calls + log[2].monitor_calls <= 1
    /\ Len(log) = 3 =>
          log[3].monitor_calls = IF log[3].force_hardcoded THEN 0 ELSE 1

\* the first call found the cache stale and refreshed it, the second used
\* it, the cache was invalidated, and the third, with force_rule_check,
\* refreshed the empty cache
C3_Witness ==
    /\ Len(log) = 3
    /\ ~log[1].cleared
    /\ log[1].before = "Stale"
    /\ log[1].monitor_calls = 1
    /\ log[2].monitor_calls = 0
    /\ log[2].cleared
    /\ log[3].before = "Empty"
    /\ log[3].monitor_calls = 1
    /\ IsCall
    /\ call.force_rule_check

\* the third call, with force_rule_check, refreshed a cache that was fresh
C3_ThirdOnFresh ==
    /\ Len(log) = 3
    /\ log[3].before = "Fresh"
    /\ log[3].monitor_calls = 1

\* the third call, with force_rule_check, refreshed a cache that was stale
C3_ThirdOnStale ==
    /\ Len(log) = 3
    /\ log[3].before = "Stale"
    /\ log[3].monitor_calls = 1

\* the cache was invalidated between the two calls without flags, and
\* each of them called check_crs_rules
C3_InvalidatedBetween ==
    /\ Len(log) = 2
    /\ log[1].cleared
    /\ log[1].monitor_calls = 1
    /\ log[2].before = "Empty"
    /\ log[2].monitor_calls = 1

\* the third call had force_rule_check and force_hardcoded and called
\* check_crs_rules not at all
C3_ThirdForcedHardcoded ==
    /\ Len(log) = 3
    /\ log[3].force_hardcoded
    /\ log[3].monitor_calls = 0

\* C6: a call with force_hardcoded returns what every earlier call with
\* force_hardcoded and the same profile returned, whatever the cache, the
\* rule check in it and the clock are, and whatever calls were made between.
C6_ForcedDeterminism ==
    (HardcodedForcedPath /\ forced_seen # None /\ forced_seen[1].inp = call.inp) =>
        /\ call.outcome = forced_seen[1].outcome
        /\ call.result = forced_seen[1].result

\* a forced call was made on an empty cache, and a later one with the same
\* profile, the clock advanced and the cache holding a rule check that lists
\* changes, returned the same
C6_Witness ==
    /\ HardcodedForcedPath
    /\ forced_seen # None
    /\ forced_seen[1].inp = call.inp
    /\ forced_seen[1].empty
    /\ call.t > 0
    /\ rule_check_cache # None
    /\ ConcreteMismatch(rule_check_cache[1])
    /\ call.result = forced_seen[1].result
    /\ call.result.total = 508

(***************************************************************************)
(* crs_dynamic.py: the rule-check status and the cache invalidation, and   *)
(* the two routes of routes/eligibility.py that serve them.                *)
(***************************************************************************)
\* the dict get_rule_check_status builds from a rule check, at minute t
rule_check_status(rule_check, timestamp, t) ==
    [ rules_match |-> rule_check.rules_match,
      use_hardcoded |-> rule_check.use_hardcoded,
      changes_detected |-> rule_check.changes_detected,
      last_checked |-> rule_check.last_checked,
      error |-> rule_check.error,
      cache_age_seconds |-> IF timestamp # None THEN Some((t - timestamp[1]) * 60) ELSE None ]

\* what a get_rule_check_status call did
StatusCall(op, t, monitor_calls, status) ==
    [op |-> op, t |-> t, monitor_calls |-> monitor_calls, ai_calls |-> 0, status |-> status]

\* the answers of the outside world that a status call can read
status_worlds_read == IF should_refresh_cache(FALSE) THEN Worlds ELSE {World(None, None, <<2026, 10>>)}

\* get_rule_check_status, one whole call: it goes through _get_rule_check
\* and reads the clock once more for cache_age_seconds (line 152)
get_rule_check_status(world, reads) ==
    \E got \in {get_rule_check(FALSE, world, reads)} :
    \E read_at \in IF got.cache # None /\ got.timestamp # None THEN clock_after(got.t) ELSE {got.t} :
       /\ rule_check_cache' = got.cache
       /\ cache_timestamp' = got.timestamp
       /\ now' = read_at
       /\ call' = StatusCall("get_rule_check_status", now, IF got.checked THEN 1 ELSE 0,
                             IF got.cache = None
                             THEN \* reading a field of None: the except branch
                                  [error |-> Some("AttributeError"), rules_match |-> None,
                                   use_hardcoded |-> TRUE]
                             ELSE rule_check_status(got.cache[1], got.timestamp, read_at))

\* POST /crs/refresh-rules: clear_rule_check_cache(), then
\* get_rule_check_status() on the cache that is None by then, for which
\* _should_refresh_cache is true
refresh_crs_rules(world, reads) ==
    \E rule_check \in {check_crs_rules(FALSE, world, reads[1])} :
    \E read_at \in clock_after(reads[2]) :
       /\ rule_check_cache' = Some(rule_check)
       /\ cache_timestamp' = Some(reads[2])
       /\ now' = read_at
       /\ call' = StatusCall("refresh_crs_rules", now, 1,
                             rule_check_status(rule_check, Some(reads[2]), read_at))

\* log keeps what was done since the latest invalidation, up to the first
\* compute_crs call after it: the invalidation, the first status call
\* between the two if there is one, and the compute_crs call
ApiEntry(c) == [op |-> c.op, monitor_calls |-> c.monitor_calls]

api_log_next(c) ==
    IF c.op = "clear_rule_check_cache" THEN <<ApiEntry(c)>>
    ELSE IF c.op = "refresh_crs_rules"
    THEN <<[op |-> "clear_rule_check_cache", monitor_calls |-> 0], ApiEntry(c)>>
    ELSE IF log = <<>> \/ log[Len(log)].op = "compute_crs" THEN <<>>
    ELSE IF c.op = "get_rule_check_status"
    THEN IF Len(log) = 1 THEN Append(log, ApiEntry(c)) ELSE log
    ELSE Append(log, ApiEntry(c))

ComputeScoreApi ==
    /\ \E inp \in CallerProfiles, frc \in BOOLEAN, fai \in BOOLEAN, fh \in BOOLEAN :
         \E world \in worlds_read(frc, fai, fh) :
           \E ai \in cache_ai_read(frc, fai, fh, world) :
             \E reads \in clock_reads(asks_monitor(frc, fai, fh)) :
               compute_crs(inp, frc, fai, fh, world, ai, reads)
    /\ log' = api_log_next(call')
    /\ UNCHANGED <<forced_seen, threads, response, in_flight>>

\* GET /crs/rule-status
RuleStatus ==
    /\ \E world \in status_worlds_read :
         \E reads \in clock_reads(should_refresh_cache(FALSE)) :
           get_rule_check_status(world, reads)
    /\ log' = api_log_next(call')
    /\ UNCHANGED <<forced_seen, threads, response, in_flight>>

\* a caller runs clear_rule_check_cache
InvalidateRuleCache ==
    /\ clear_rule_check_cache
    /\ log' = api_log_next(call')
    /\ UNCHANGED <<forced_seen, threads, response, in_flight>>

\* POST /crs/refresh-rules
RefreshRules ==
    /\ \E world \in Worlds : \E reads \in clock_reads(TRUE) : refresh_crs_rules(world, reads)
    /\ log' = api_log_next(call')
    /\ UNCHANGED <<forced_seen, threads, response, in_flight>>

NextApi == ComputeScoreApi \/ RuleStatus \/ InvalidateRuleCache \/ RefreshRules \/ Tick

SpecApi == Init /\ [][NextApi]_vars

\* the first compute_crs call after an invalidation has just run
FirstCallAfterInvalidation == IsCall /\ log # <<>> /\ log[Len(log)].op = "compute_crs"

\* C11: the first compute_crs call after clear_rule_check_cache (a call
\* that consults the rule check, i.e. one without force_hardcoded) calls
\* check_crs_rules itself, and the rule check it reads was made after the
\* invalidation.
C11_InvalidationForcesRefresh ==
    (FirstCallAfterInvalidation /\ ~call.force_hardcoded) =>
        /\ call.monitor_calls = 1
        /\ call.rule_check # None =>
              \E i \in 2..Len(log) : log[i].monitor_calls = 1

\* C12: get_rule_check_status calls neither check_crs_rules nor
\* compute_crs_with_ai and leaves the cached rule check and its timestamp
\* as they were, whatever the state of the cache.
C12_StatusReadOnly ==
    [][ call'.op = "get_rule_check_status" =>
            /\ call'.monitor_calls = 0
            /\ call'.ai_calls = 0
            /\ rule_check_cache' = rule_check_cache
            /\ cache_timestamp' = cache_timestamp ]_vars

(***************************************************************************)
(* check_crs_rules called directly: the arguments and the answer of the    *)
(* outside world are drawn first, then the call is made.                   *)
(***************************************************************************)
MonitorCall(force_check, world, outcome, result) ==
    [op |-> "check_crs_rules", force_check |-> force_check, world |-> world,
     outcome |-> outcome, result |-> result]

InitMonitor ==
    /\ rule_check_cache = None
    /\ cache_timestamp = None
    /\ now = 0
    /\ call \in {MonitorCall(force_check, world, "pending", None) :
                    force_check \in BOOLEAN, world \in MonitorWorlds}
    /\ log = <<>>
    /\ forced_seen = None
    /\ threads = [p \in Threads |-> Idle]
    /\ response = None
    /\ in_flight = EmptyBag

\* check_crs_rules(force_check) runs to its end
CheckRules ==
    /\ call.op = "check_crs_rules"
    /\ call.outcome = "pending"
    /\ call' = MonitorCall(call.force_check, call.world, "returned",
                           Some(check_crs_rules(call.force_check, call.world, now)))
    /\ UNCHANGED <<rule_check_cache, cache_timestamp, now, log, forced_seen, threads, response, in_flight>>

NextMonitor == CheckRules

SpecMonitor == InitMonitor /\ [][NextMonitor]_vars

MonitorReturned == call.op = "check_crs_rules" /\ call.outcome = "returned"

\* the extraction raises, or the comparison of this call's summary raises
\* (a summary that is no mapping, or an entry of recent_changes that is no
\* text)
InternalStepFailed ==
    \/ call.world.error # None
    \/ compare_rules(KNOWN_CRS_RULES_SIGNATURE, call.world.extracted, call.world.today).raised

\* C13: check_crs_rules returns a rule check for every page and every
\* extraction outcome, and when a step inside it raised, the rule check has
\* its error set, use_hardcoded true and no changes.
C13_MonitorNeverRaises ==
    MonitorReturned =>
        /\ call.result # None
        /\ DOMAIN call.result[1] = {"rules_match", "use_hardcoded", "changes_detected",
                                    "official_rules_summary", "last_checked", "error"}
        /\ InternalStepFailed =>
              /\ call.result[1].error # None
              /\ call.result[1].use_hardcoded
              /\ call.result[1].changes_detected = <<>>

\* a summary with a differing value and a recent_changes entry that is no
\* text was compared, and the call returned the rule check of the except
\* branch
C13_Witness ==
    /\ MonitorReturned
    /\ call.world.extracted # None
    /\ call.world.extracted[1] =
           Summary("dict", [MatchingVals EXCEPT !.max_points = JInt(1300)], TRUE,
                   <<OtherText, NumberEntry>>, FALSE, 0)
    /\ call.result[1].error = Some("AttributeError")
    /\ call.result[1].use_hardcoded
    /\ call.result[1].changes_detected = <<>>

\* no official rule summary was to be had: no candidate location returned
\* the page, or the extraction returned nothing
NoOfficialData ==
    \/ call.world.page = None
    \/ call.world.extracted = None /\ call.world.error = None

\* C14: when no page could be retrieved or the extraction returned nothing,
\* check_crs_rules returns rules_match true, use_hardcoded true and no
\* changes (the rule check on which the default path uses the engine).
C14_NoDataMeansMatch ==
    (MonitorReturned /\ NoOfficialData) =>
        /\ call.result[1].rules_match
        /\ call.result[1].use_hardcoded
        /\ call.result[1].changes_detected = <<>>

(***************************************************************************)
(* Concurrent callers of _get_rule_check (from compute_crs and             *)
(* get_rule_check_status) and of clear_rule_check_cache.  The code holds   *)
(* no lock.  In this specification log is <<c, t, n>>: the call that last  *)
(* wrote _rule_check_cache, the call that last wrote _cache_timestamp      *)
(* (0: never written), and the number of calls started.                    *)
(***************************************************************************)
MaxCalls == 3

ThreadWorlds == {World(None, None, <<2026, 10>>), World(Page, Some(ChangedSummary), <<2026, 10>>)}

InitThreads ==
    /\ rule_check_cache = None
    /\ cache_timestamp = None
    /\ now = 0
    /\ call = NoCall
    /\ log = <<0, 0, 0>>
    /\ forced_seen = None
    /\ threads = [p \in Threads |-> Idle]
    /\ response = None
    /\ in_flight = EmptyBag

goto(p, pc) == threads' = [threads EXCEPT ![p].pc = pc]

\* the callers of _get_rule_check and the force_check each passes:
\* compute_crs on the default path (force_rule_check), compute_crs with
\* force_ai_calculation (True), get_rule_check_status (the default, False)
Callers == {<<"compute_crs", FALSE>>, <<"compute_crs", TRUE>>,
            <<"compute_crs_force_ai", TRUE>>, <<"get_rule_check_status", FALSE>>}

\* a thread's caller enters _get_rule_check(force_check); line 32
GetStart(p) ==
    /\ threads[p].pc = "idle"
    /\ log[3] < MaxCalls
    /\ \E c \in Callers :
         threads' = [threads EXCEPT ![p] =
                        [Thread(IF c[2] THEN "46_check" ELSE "34_cache",
                                log[3] + 1, c[2], None, "none") EXCEPT !.caller = c[1]]]
    /\ log' = <<log[1], log[2], log[3] + 1>>
    /\ UNCHANGED <<rule_check_cache, cache_timestamp, now, call, forced_seen, response, in_flight>>

\* line 34, left operand: _rule_check_cache is None
ShouldRefreshCache(p) ==
    /\ threads[p].pc = "34_cache"
    /\ goto(p, IF rule_check_cache = None THEN "46_check" ELSE "34_timestamp")
    /\ UNCHANGED <<rule_check_cache, cache_timestamp, now, call, log, forced_seen, response, in_flight>>

\* line 34, right operand: _cache_timestamp is None
ShouldRefreshTimestamp(p) ==
    /\ threads[p].pc = "34_timestamp"
    /\ goto(p, IF cache_timestamp = None THEN "46_check" ELSE "36_clock")
    /\ UNCHANGED <<rule_check_cache, cache_timestamp, now, call, log, forced_seen, response, in_flight>>

\* line 36, left operand: datetime.utcnow()
ShouldRefreshClock(p) ==
    /\ threads[p].pc = "36_clock"
    /\ threads' = [threads EXCEPT ![p].pc = "36_age", ![p].clock = now]
    /\ UNCHANGED <<rule_check_cache, cache_timestamp, now, call, log, forced_seen, response, in_flight>>

\* line 36, right operand and comparison: ... - _cache_timestamp raises
\* TypeError when the timestamp is None by now; the exception leaves
\* _get_rule_check
ShouldRefreshAge(p) ==
    /\ threads[p].pc = "36_age"
    /\ IF cache_timestamp = None
       THEN threads' = [threads EXCEPT ![p].pc = "caller", ![p].outcome = "TypeError",
                                       ![p].clock = 0]
       ELSE IF threads[p].clock - cache_timestamp[1] > CACHE_DURATION
       THEN threads' = [threads EXCEPT ![p].pc = "46_check", ![p].clock = 0]
       ELSE threads' = [threads EXCEPT ![p].pc = "49_return", ![p].fresh = TRUE,
                                       ![p].clock = 0]
    /\ UNCHANGED <<rule_check_cache, cache_timestamp, now, call, log, forced_seen, response, in_flight>>

\* line 46, right-hand side: check_crs_rules(force_check=force_check), which
\* reads the clock for last_checked as it returns
RefreshCheck(p) ==
    /\ threads[p].pc = "46_check"
    /\ \E world \in ThreadWorlds :
         threads' = [threads EXCEPT
                        ![p].pc = "46_store",
                        ![p].rule_check = Some(check_crs_rules(threads[p].force_check, world, now))]
    /\ UNCHANGED <<rule_check_cache, cache_timestamp, now, call, log, forced_seen, response, in_flight>>

\* line 46, the assignment to _rule_check_cache
RefreshWriteCache(p) ==
    /\ threads[p].pc = "46_store"
    /\ rule_check_cache' = threads[p].rule_check
    /\ log' = <<threads[p].id, log[2], log[3]>>
    /\ goto(p, "47_clock")
    /\ UNCHANGED <<cache_timestamp, now, call, forced_seen, response, in_flight>>

\* line 47, right-hand side: datetime.utcnow()
RefreshReadClock(p) ==
    /\ threads[p].pc = "47_clock"
    /\ threads' = [threads EXCEPT ![p].pc = "47_store", ![p].clock = now]
    /\ UNCHANGED <<rule_check_cache, cache_timestamp, now, call, log, forced_seen, response, in_flight>>

\* line 47, the assignment to _cache_timestamp
RefreshWriteTimestamp(p) ==
    /\ threads[p].pc = "47_store"
    /\ cache_timestamp' = Some(threads[p].clock)
    /\ log' = <<log[1], threads[p].id, log[3]>>
    /\ threads' = [threads EXCEPT ![p].pc = "49_return", ![p].clock = 0]
    /\ UNCHANGED <<rule_check_cache, now, call, forced_seen, response, in_flight>>

\* line 49: return _rule_check_cache
GetReturn(p) ==
    /\ threads[p].pc = "49_return"
    /\ threads' = [threads EXCEPT ![p].pc = "caller", ![p].rule_check = rule_check_cache,
                                  ![p].outcome = "returned"]
    /\ UNCHANGED <<rule_check_cache, cache_timestamp, now, call, log, forced_seen, response, in_flight>>

\* the profile the callers on the threads pass to compute_crs
ThreadProfile == ScenarioA

\* what the AI calculator answers a caller on a thread: the service is
\* missing (RuntimeError), or it answers a result that fits the schema
ThreadAiAnswers == {AiRaise("no_crewai"), AiDict(AiKeys, {}, 508, 408, 0, 100, 0, AiBreakdown)}

\* the answers a caller reads: only a caller that reaches
\* compute_crs_with_ai reads one
thread_ai_read(thread) ==
    IF \/ thread.caller = "compute_crs_force_ai"
       \/ /\ thread.caller = "compute_crs"
          /\ thread.outcome = "returned"
          /\ thread.rule_check # None
          /\ ~prefers_hardcoded(thread.rule_check[1])
    THEN ThreadAiAnswers ELSE {AiRaise("no_crewai")}

\* what the caller does with what _get_rule_check gave it, up to its
\* return or, for get_rule_check_status, up to the fields of lines 146-150.
\* Each caller reads a field of the rule check inside its try (compute_crs
\* lines 80 and 89, get_rule_check_status line 146): on None that raises
\* AttributeError, which the except of the caller handles like the
\* TypeError that left _get_rule_check.
\*   compute_crs, default path: the except of lines 91-96 returns the
\*     engine's result tagged hardcoded_error_fallback; otherwise the
\*     decision of lines 101-138, and the outcome is the tag of its result;
\*   compute_crs with force_ai_calculation: official_rules is None after
\*     the except of line 81, and line 85 calls compute_crs_with_ai outside
\*     any try: the outcome is "raised" when that raises, and otherwise
\*     tells whether the call went on with or without a rule check;
\*   get_rule_check_status: "status_error" for the dict of lines 156-161,
\*     "status_fields" when lines 146-150 were evaluated.
caller_outcome(thread, ai) ==
    LET raised == thread.outcome = "TypeError" \/ thread.rule_check = None
    IN IF thread.caller = "compute_crs"
       THEN IF raised THEN "hardcoded_error_fallback"
            ELSE decide(ThreadProfile, thread.rule_check[1], ai).result.breakdown["calculation_method"]
       ELSE IF thread.caller = "compute_crs_force_ai"
       THEN IF compute_crs_with_ai(ThreadProfile,
                                   IF raised THEN None
                                   ELSE thread.rule_check[1].official_rules_summary, ai).raised
            THEN "raised"
            ELSE IF raised THEN "ai_without_summary" ELSE "ai_with_summary"
       ELSE IF raised THEN "status_error" ELSE "status_fields"

\* the caller goes on after _get_rule_check returned or raised
CallerContinues(p) ==
    /\ threads[p].pc = "caller"
    /\ \E ai \in thread_ai_read(threads[p]) :
       \E outcome \in {caller_outcome(threads[p], ai)} :
         threads' = [threads EXCEPT
                        ![p].pc = IF outcome = "status_fields" THEN "153_timestamp" ELSE "idle",
                        ![p].outcome = outcome]
    /\ UNCHANGED <<rule_check_cache, cache_timestamp, now, call, log, forced_seen, response, in_flight>>

\* get_rule_check_status, line 153: `if _cache_timestamp`; on None the
\* cache_age_seconds is None and the status is returned
StatusReadTimestamp(p) ==
    /\ threads[p].pc = "153_timestamp"
    /\ IF cache_timestamp = None
       THEN threads' = [threads EXCEPT ![p].pc = "idle", ![p].outcome = "status"]
       ELSE goto(p, "152_clock")
    /\ UNCHANGED <<rule_check_cache, cache_timestamp, now, call, log, forced_seen, response, in_flight>>

\* get_rule_check_status, line 152, left operand: datetime.utcnow()
StatusReadClock(p) ==
    /\ threads[p].pc = "152_clock"
    /\ threads' = [threads EXCEPT ![p].pc = "152_age", ![p].clock = now]
    /\ UNCHANGED <<rule_check_cache, cache_timestamp, now, call, log, forced_seen, response, in_flight>>

\* get_rule_check_status, line 152, right operand: ... - _cache_timestamp
\* raises TypeError when the timestamp is None by now, and the except of
\* line 155 returns the error status
StatusAge(p) ==
    /\ threads[p].pc = "152_age"
    /\ threads' = [threads EXCEPT
                      ![p].pc = "idle",
                      ![p].clock = 0,
                      ![p].outcome = IF cache_timestamp = None THEN "status_error" ELSE "status"]
    /\ UNCHANGED <<rule_check_cache, cache_timestamp, now, call, log, forced_seen, response, in_flight>>

\* a thread enters clear_rule_check_cache
ClearStart(p) ==
    /\ threads[p].pc = "idle"
    /\ log[3] < MaxCalls
    /\ threads' = [threads EXCEPT ![p] = Thread("167_store", log[3] + 1, FALSE, None, "none")]
    /\ log' = <<log[1], log[2], log[3] + 1>>
    /\ UNCHANGED <<rule_check_cache, cache_timestamp, now, call, forced_seen, response, in_flight>>

\* line 167: _rule_check_cache = None
ClearWriteCache(p) ==
    /\ threads[p].pc = "167_store"
    /\ rule_check_cache' = None
    /\ log' = <<0, log[2], log[3]>>
    /\ goto(p, "168_store")
    /\ UNCHANGED <<cache_timestamp, now, call, forced_seen, response, in_flight>>

\* line 168: _cache_timestamp = None
ClearWriteTimestamp(p) ==
    /\ threads[p].pc = "168_store"
    /\ cache_timestamp' = None
    /\ log' = <<log[1], 0, log[3]>>
    /\ threads' = [threads EXCEPT ![p].pc = "idle", ![p].outcome = "returned"]
    /\ UNCHANGED <<rule_check_cache, now, call, forced_seen, response, in_flight>>

NextThreads ==
    \/ \E p \in Threads :
         \/ GetStart(p) \/ ShouldRefreshCache(p) \/ ShouldRefreshTimestamp(p)
         \/ ShouldRefreshClock(p) \/ ShouldRefreshAge(p) \/ RefreshCheck(p)
         \/ RefreshWriteCache(p) \/ RefreshReadClock(p) \/ RefreshWriteTimestamp(p)
         \/ GetReturn(p) \/ CallerContinues(p)
         \/ StatusReadTimestamp(p) \/ StatusReadClock(p) \/ StatusAge(p)
         \/ ClearStart(p) \/ ClearWriteCache(p) \/ ClearWriteTimestamp(p)
    \/ Tick

SpecThreads == InitThreads /\ [][NextThreads]_vars

\* the two globals are both None, or both written by the same refresh
CacheWhole ==
    IF rule_check_cache = None THEN cache_timestamp = None
    ELSE cache_timestamp # None /\ log[1] = log[2]

\* C15: whenever a thread is about to read the cache (lines 34, 36, 49),
\* the rule check and the timestamp are both None or were both written by
\* the same refresh, under every interleaving of the threads.
C15_CacheNeverPartial ==
    \A p \in Threads : threads[p].pc \in {"34_cache", "34_timestamp", "36_age", "49_return"} => CacheWhole

(***************************************************************************)
(* routes/eligibility.py: POST /crs/compute, from the call of compute_crs  *)
(* on (lines 134-177).                                                     *)
(***************************************************************************)
\* CRSComputeResponse(total=result.total, ...)
CRSComputeResponse(result) ==
    [ total |-> result.total,
      core_human_capital |-> result.core_human_capital,
      spouse_factors |-> result.spouse_factors,
      skill_transferability |-> result.skill_transferability,
      additional_points |-> result.additional_points,
      breakdown |-> result.breakdown,
      missing_or_defaulted |-> result.missing_or_defaulted,
      disclaimer |-> result.disclaimer ]

\* lines 137-166: what the route makes of the result of compute_crs,
\* [raised, error, result]: line 141 (152, 160) raises TypeError on a
\* breakdown that is no dict, and line 150 raises AttributeError on a
\* missing_or_defaulted that is no list
with_requirements_status(result, crs_analysis) ==
    LET status == [can_calculate |-> crs_analysis.can_calculate,
                   is_complete |-> crs_analysis.can_calculate /\ crs_analysis.is_complete,
                   missing_required_fields |-> crs_analysis.missing_required,
                   missing_optional_fields |->
                       IF crs_analysis.can_calculate /\ crs_analysis.is_complete
                       THEN <<>> ELSE crs_analysis.missing_optional,
                   message |->
                       IF ~crs_analysis.can_calculate
                       THEN "Cannot calculate meaningful CRS score. Missing required fields. Please upload: passport (for age), education documents, and language test results."
                       ELSE IF ~crs_analysis.is_complete
                       THEN "CRS calculated with minimum required fields. Upload additional documents to improve score."
                       ELSE "All required fields present. Complete CRS calculation available."]
        noted == [result EXCEPT
                     !.breakdown = dict_set(result.breakdown, "requirements_status", status)]
        zeroed == [noted EXCEPT
                      !.total = 0,
                      !.non_int = @ \ {"total"},
                      !.raw = restricted(@, DOMAIN @ \ {"total"})]
    IN IF "breakdown" \in result.non_int
       THEN [raised |-> TRUE, error |-> "TypeError", result |-> result]
       ELSE IF crs_analysis.can_calculate
       THEN [raised |-> FALSE, error |-> "", result |-> noted]
       ELSE IF "missing_or_defaulted" \in result.non_int
               /\ result.raw["missing_or_defaulted"].t # "list"
       THEN [raised |-> TRUE, error |-> "AttributeError", result |-> zeroed]
       ELSE [raised |-> FALSE, error |-> "",
             result |-> [zeroed EXCEPT
                            !.missing_or_defaulted = @ \o crs_analysis.missing_required]]

\* the characters str::trim of Rust removes (White_Space), as far as a TLA+
\* string holds them
TrimSpace == {" ", "\t", "\n", "\r", "\f", "", "", " "}

RECURSIVE trim_start(_)
trim_start(s) == IF s # "" /\ Head(s) \in TrimSpace THEN trim_start(Tail(s)) ELSE s

RECURSIVE trim_end(_)
trim_end(s) ==
    IF s # "" /\ SubSeq(s, Len(s), Len(s)) \in TrimSpace
    THEN trim_end(SubSeq(s, 1, Len(s) - 1)) ELSE s

\* strip_leading_zeros of pydantic-core, on the text from index i on: zeros
\* and underscores are passed over up to a digit 1-9 or a "-", which start
\* what is kept; a "." keeps the zero before it; None for another character
RECURSIVE skip_zeros(_, _)
skip_zeros(s, i) ==
    IF i >= Len(s) THEN Some(SubSeq(s, Len(s), Len(s)))
    ELSE IF char_at(s, i) \in {"0", "_"} THEN skip_zeros(s, i + 1)
    ELSE IF char_at(s, i) = "." THEN Some(SubSeq(s, i, Len(s)))
    ELSE IF char_at(s, i) = "-" \/ is_digit(char_at(s, i)) THEN Some(SubSeq(s, i + 1, Len(s)))
    ELSE None

strip_leading_zeros(s) ==
    IF s = "" \/ ~is_digit(Head(s)) THEN None
    ELSE IF Head(s) = "0" THEN skip_zeros(s, 1)
    ELSE Some(s)

\* the text before a "." that only zeros, and at least one, follow; the
\* text itself when it holds no "."; None otherwise
strip_decimal_zeros(s) ==
    LET dots == {i \in 1..Len(s) : char_at(s, i - 1) = "."}
    IN IF dots = {} THEN Some(s)
       ELSE LET dot == CHOOSE i \in dots : \A j \in dots : i <= j
            IN IF dot < Len(s) /\ \A i \in (dot + 1)..Len(s) : char_at(s, i - 1) = "0"
               THEN Some(SubSeq(s, 1, dot - 1))
               ELSE None

\* the text without its underscores; None when it starts or ends with one
\* or holds two in a row
strip_underscores(s) ==
    IF s = "" THEN None
    ELSE IF Head(s) = "_" \/ char_at(s, Len(s) - 1) = "_" THEN None
    ELSE IF \E i \in 1..(Len(s) - 1) : char_at(s, i - 1) = "_" /\ char_at(s, i) = "_" THEN None
    ELSE Some(replace(s, "_", ""))

\* the int that a text of the form -?(0|[1-9][0-9]*) denotes, None for
\* another text
int_of_text(s) ==
    LET negative == s # "" /\ Head(s) = "-"
        body == IF negative THEN Tail(s) ELSE s
    IN IF body = "" \/ \E i \in 1..Len(body) : ~is_digit(char_at(body, i - 1)) THEN None
       ELSE IF Len(body) > 1 /\ Head(body) = "0" THEN None
       ELSE Some((IF negative THEN -1 ELSE 1) * to_int(body))

\* the steps of clean_int_str after the sign is taken off
cleaned_int(sign, zeros_stripped) ==
    IF zeros_stripped = None THEN None
    ELSE IF strip_decimal_zeros(zeros_stripped[1]) = None THEN None
    ELSE IF strip_underscores(strip_decimal_zeros(zeros_stripped[1])[1]) = None THEN None
    ELSE int_of_text(sign \o strip_underscores(strip_decimal_zeros(zeros_stripped[1])[1])[1])

signed_int(s) ==
    IF s # "" /\ Head(s) = "-" THEN cleaned_int("-", strip_leading_zeros(Tail(s)))
    ELSE IF s # "" /\ Head(s) = "+" THEN cleaned_int("", strip_leading_zeros(Tail(s)))
    ELSE cleaned_int("", strip_leading_zeros(s))

\* the int a str field value becomes under pydantic's lax mode (str_as_int
\* of pydantic-core): the text is trimmed, one sign is taken off, leading
\* zeros, a decimal point followed by zeros and single underscores between
\* digits are removed, and what is left is read as an int; None for a text
\* that is rejected
str_as_int(text) == signed_int(trim_end(trim_start(text)))

\* what pydantic (lax mode) makes of the value of an int field: an int or a
\* bool as it is, a float without a fraction, a str that reads as an int;
\* None when the value is rejected
lax_int(value) ==
    CASE value.t \in {"int", "bool"} -> Some(value.i)
      [] value.t = "float" -> IF value.i % 10 = 0 THEN Some(value.i \div 10) ELSE None
      [] value.t = "str" -> str_as_int(value.s)
      [] OTHER -> None

IntFields ==
    {"total", "core_human_capital", "spouse_factors", "skill_transferability", "additional_points"}

\* the int that CRSComputeResponse holds for a field of IntFields
int_field(result, key) ==
    IF key \in result.non_int THEN lax_int(result.raw[key]) ELSE Some(result[key])

\* CRSComputeResponse(...) of lines 168-177 validates its arguments: the
\* five numbers as int, breakdown as dict and missing_or_defaulted as
\* list[str]
validates(result) ==
    /\ \A key \in IntFields : int_field(result, key) # None
    /\ result.non_int \cap {"breakdown", "missing_or_defaulted"} = {}

\* the answer of the route: a compute_crs that raised, a raise of lines
\* 137-166 and a ValidationError of the response model are passed on to the
\* client as errors
crs_compute_answer(c, crs_analysis) ==
    IF c.outcome = "raised" THEN [outcome |-> "raised", body |-> c.result]
    ELSE LET status == with_requirements_status(c.result, crs_analysis)
             result == status.result
         IN IF status.raised
            THEN [outcome |-> "raised", body |-> [error |-> status.error]]
            ELSE IF ~validates(result)
            THEN [outcome |-> "raised", body |-> [error |-> "ValidationError"]]
            ELSE [outcome |-> "returned",
                  body |-> CRSComputeResponse(
                      [result EXCEPT
                          !.total = int_field(result, "total")[1],
                          !.core_human_capital = int_field(result, "core_human_capital")[1],
                          !.spouse_factors = int_field(result, "spouse_factors")[1],
                          !.skill_transferability =
                              int_field(result, "skill_transferability")[1],
                          !.additional_points = int_field(result, "additional_points")[1]])]

\* the answers of the AI service that a call of the route can read
route_ai_read(world) ==
    IF asks_ai(FALSE, FALSE, FALSE, world)
    THEN cache_ai_read(FALSE, FALSE, FALSE, world) \cup ResponseAnswers
    ELSE {AiRaise("no_crewai")}

(***************************************************************************)
(* The routes on the event loop.  A handler is a coroutine: it runs alone   *)
(* from its entry or an await to its next await or its end, and at an      *)
(* await the loop runs the steps of other requests.  POST /crs/compute     *)
(* awaits once (routes/eligibility.py line 49), POST /chat at lines 150,   *)
(* 152 and 188 of routes/chat.py; GET /crs/rule-status and                 *)
(* POST /crs/refresh-rules await nothing.  All of them share the cache of  *)
(* crs_dynamic.                                                            *)
(***************************************************************************)
\* the requests the event loop serves: a user without a document and users
\* with documents, each without a body and with one
RouteRequests == {
    Request(doc, overrides) :
        doc \in {None,
                 Some(ProfileDoc(EmptyData, "", "", None)),
                 Some(ProfileDoc(ScenarioAData, "", "", None)),
                 Some(ProfileDoc([ScenarioAData EXCEPT !.age = 0, !.dob = "01/05/1996"],
                                 "", "", None))},
        overrides \in {None, BodyOverrides} }

\* what a request that waits at an await holds: its route, the line of the
\* await, the request body and the profile data built so far
Frame(route, line, overrides, data) ==
    [route |-> route, line |-> line, overrides |-> overrides, data |-> data]

\* at most MaxRequests requests wait at a time
MaxRequests == 2

\* the bodies of the requests of the model
Bodies == {request.overrides : request \in RouteRequests}

suspended(frame) == in_flight' = in_flight (+) SetToBag({frame})

resumed(frame, next_frames) == in_flight' = (in_flight (-) SetToBag({frame})) (+) SetToBag(next_frames)

\* POST /crs/compute, lines 28-49: the handler is entered with the request
\* body and waits for the profile document (await db.profiles.find_one);
\* the event loop runs other requests meanwhile
CrsStart ==
    /\ BagCardinality(in_flight) < MaxRequests
    /\ \E overrides \in Bodies : suspended(Frame("crs_compute", 49, overrides, None))
    /\ response' = None
    /\ UNCHANGED <<rule_check_cache, cache_timestamp, now, call, log, forced_seen, threads>>

\* the profile documents POST /chat finds
ChatDocs == {None, Some(ProfileDoc(ScenarioAData, "", "", None))}

\* POST /chat (routes/chat.py), lines 132-150: the handler is entered and
\* waits for the profile document
ChatStart ==
    /\ BagCardinality(in_flight) < MaxRequests
    /\ suspended(Frame("chat", 150, None, None))
    /\ response' = None
    /\ UNCHANGED <<rule_check_cache, cache_timestamp, now, call, log, forced_seen, threads>>

\* POST /chat, lines 150-152: the document arrives, _build_profile_data
\* (lines 29-97) merges it as POST /crs/compute does, and the handler waits
\* for the list of documents (the awaits of lines 103 and 109, between
\* which it fills a list of its own)
ChatProfile ==
    /\ \E frame \in BagToSet(in_flight) :
         /\ frame.route = "chat"
         /\ frame.line = 150
         /\ \E doc \in ChatDocs :
              resumed(frame, {Frame("chat", 152, None, Some(merged_profile_data(doc)))})
    /\ response' = None
    /\ UNCHANGED <<rule_check_cache, cache_timestamp, now, call, log, forced_seen, threads>>

\* what a handler that resumes calls compute_crs with: the profile data it
\* converts and, for POST /crs/compute, the analysis its answer is built from
Job(data, crs_analysis) == [data |-> data, crs_analysis |-> crs_analysis]

\* POST /crs/compute resumes at line 49 with the document that arrives and
\* merges it with its body (lines 52-129); POST /chat resumes at line 152
\* with the data it built at line 151
crs_compute_jobs(frame) ==
    {Job(crs_analysis.profile_data, Some(crs_analysis)) :
        crs_analysis \in {route_analysis(request.doc, request.overrides) :
                            request \in {r \in RouteRequests : r.overrides = frame.overrides}}}

chat_jobs(frame) == {Job(frame.data[1], None)}

jobs(frame) == IF frame.route = "crs_compute" THEN crs_compute_jobs(frame) ELSE chat_jobs(frame)

\* A handler resumes and calls compute_crs.
\* POST /crs/compute, lines 49-177: the document arrives and the handler
\* runs to its end without another await; it answers with the result.
\* POST /chat, lines 152-188: the list of documents arrives and the handler
\* calls compute_crs on its data inside a try that passes over every
\* exception (lines 154-165); what follows builds the prompt from values
\* the handler holds and waits for the reply of the chat agent (line 188),
\* and reads and writes nothing of the cache.
ResumeCompute ==
    /\ \E frame \in BagToSet(in_flight) :
         /\ frame.line \in {49, 152}
         /\ resumed(frame, {})
         /\ \E job \in jobs(frame) :
              /\ \E inp \in {profile_to_crs_input(job.data)} :
                   \E world \in worlds_read(FALSE, FALSE, FALSE) :
                     \E ai \in route_ai_read(world) :
                       \E reads \in clock_reads(asks_monitor(FALSE, FALSE, FALSE)) :
                         compute_crs(inp, FALSE, FALSE, FALSE, world, ai, reads)
              /\ response' = IF job.crs_analysis = None THEN None
                             ELSE Some(crs_compute_answer(call', job.crs_analysis[1]))
    /\ UNCHANGED <<log, forced_seen, threads>>

\* GET /crs/rule-status, which has no await
CrsRuleStatus ==
    /\ \E world \in status_worlds_read :
         \E reads \in clock_reads(should_refresh_cache(FALSE)) :
           get_rule_check_status(world, reads)
    /\ response' = None
    /\ UNCHANGED <<log, forced_seen, threads, in_flight>>

\* POST /crs/refresh-rules, which has no await
CrsRefreshRules ==
    /\ \E world \in Worlds : \E reads \in clock_reads(TRUE) : refresh_crs_rules(world, reads)
    /\ response' = None
    /\ UNCHANGED <<log, forced_seen, threads, in_flight>>

\* the requests the event loop serves: each step runs one handler from its
\* entry or an await to its next await or its end
NextRoute ==
    \/ CrsStart \/ ChatStart \/ ChatProfile \/ ResumeCompute
    \/ CrsRuleStatus \/ CrsRefreshRules
    \/ Tick

SpecRoute == Init /\ [][NextRoute]_vars

\* total = min(1200, sum of the four subtotals), skill_transferability <= 100
TotalIsClampedSum(r) ==
    /\ r.skill_transferability <= 100
    /\ r.total = min2(1200, r.core_human_capital + r.spouse_factors
                            + r.skill_transferability + r.additional_points)

\* C16: the total of every result of crs_agent.compute_crs is the sum of
\* its four subtotals, clamped to 1200, with skill_transferability at most
\* 100; and so is the total of every response of POST /crs/compute.
C16_TotalIsClampedSum ==
    /\ \A inp \in Profiles : TotalIsClampedSum(compute_crs_hardcoded(inp))
    /\ (response # None /\ response[1].outcome = "returned") =>
           TotalIsClampedSum(response[1].body)

(***************************************************************************)
(* The pure functions of crs_agent.py applied to arguments drawn from      *)
(* bounded sets: compute_crs on a profile, _clb_from_scores on a test type *)
(* and four raw scores.                                                    *)
(***************************************************************************)
MaritalStatuses == {"single", "Single", "engaged", "married", "Married", "common_law"}

\* <<education_level, education_level_detail>>
Educations == {<<"", "">>, <<"bachelors", "Bachelor's degree">>, <<"", "Master of Science">>}

\* raw scores of the four skills, in tenths
SkillScores == {<<None, None, None, None>>, <<Some(75), Some(80), Some(85), Some(70)>>,
                <<None, Some(60), None, None>>}

\* <<spouse_education_level, spouse_canadian_work_years, the spouse's four scores>>
SpouseDetails == {<<"", 0, <<None, None, None, None>>>>,
                  <<"masters", 1, <<Some(70), Some(70), Some(70), Some(70)>>>>}

\* Scenario A of the test file and its variations
EngineProfiles ==
    { [ScenarioA EXCEPT
          !.age = age,
          !.marital_status = marital_status,
          !.spouse_accompanying = spouse_accompanying,
          !.education_level = education[1],
          !.education_level_detail = education[2],
          !.lang_speaking = scores[1],
          !.lang_listening = scores[2],
          !.lang_reading = scores[3],
          !.lang_writing = scores[4],
          !.spouse_education_level = spouse[1],
          !.spouse_canadian_work_years = spouse[2],
          !.spouse_lang_speaking = spouse[3][1],
          !.spouse_lang_listening = spouse[3][2],
          !.spouse_lang_reading = spouse[3][3],
          !.spouse_lang_writing = spouse[3][4]] :
        age \in {-1, 0, 30, 45},
        marital_status \in MaritalStatuses,
        spouse_accompanying \in BOOLEAN,
        education \in Educations,
        scores \in SkillScores,
        spouse \in SpouseDetails }

TestTypes == {"ielts", "IELTS General", "celpip", "CELPIP-G", "pte", "PTE Core", "tef", ""}

\* raw scores in tenths: None, and values inside and outside the range of
\* each of the three tests
RawScores == {None} \cup {Some(x) : x \in {-10, 0, 5, 20, 30, 35, 40, 55, 60, 65, 70, 75, 80,
                                           85, 90, 95, 100, 120, 125, 130, 350, 360, 620,
                                           820, 830, 900, 950}}

EngineCall(inp, result) == [op |-> "crs_agent.compute_crs", inp |-> inp, result |-> result]

ConverterCall(test_type, scores, result) ==
    [op |-> "_clb_from_scores", test_type |-> test_type, scores |-> scores, result |-> result]

InitEngine ==
    /\ rule_check_cache = None
    /\ cache_timestamp = None
    /\ now = 0
    /\ call \in {EngineCall(inp, None) : inp \in EngineProfiles}
                \cup {ConverterCall(test_type, <<speaking, others, others, others>>, None) :
                         test_type \in TestTypes, speaking \in RawScores,
                         others \in {None, Some(70)}}
    /\ log = <<>>
    /\ forced_seen = None
    /\ threads = [p \in Threads |-> Idle]
    /\ response = None
    /\ in_flight = EmptyBag

\* crs_agent.compute_crs(inp)
ComputeCrs ==
    /\ call.op = "crs_agent.compute_crs"
    /\ call.result = None
    /\ call' = EngineCall(call.inp, Some(crs_agent_compute_crs(call.inp)))
    /\ UNCHANGED <<rule_check_cache, cache_timestamp, now, log, forced_seen, threads, response, in_flight>>

\* _clb_from_scores(test_type, speaking, listening, reading, writing)
ClbFromScores ==
    /\ call.op = "_clb_from_scores"
    /\ call.result = None
    /\ call' = ConverterCall(call.test_type, call.scores,
                             Some(clb_from_scores(call.test_type, call.scores[1], call.scores[2],
                                                  call.scores[3], call.scores[4])))
    /\ UNCHANGED <<rule_check_cache, cache_timestamp, now, log, forced_seen, threads, response, in_flight>>

NextEngine == ComputeCrs \/ ClbFromScores

SpecEngine == InitEngine /\ [][NextEngine]_vars

\* compute_crs has returned its result for call.inp
Scored == call.op = "crs_agent.compute_crs" /\ call.result # None

\* C17: where a required input is absent (age <= 0; neither education_level
\* nor education_level_detail; none of the four first-language scores), the
\* engine's points for that factor are 0 and its marker is in
\* missing_or_defaulted.
C17_MissingInputsScoreZero ==
    Scored =>
        LET inp == call.inp
            r == call.result[1]
            marked(m) == \E i \in 1..Len(r.missing_or_defaulted) : r.missing_or_defaulted[i] = m
        IN /\ inp.age <= 0 => (r.breakdown["age"] = 0 /\ marked("age"))
           /\ (inp.education_level = "" /\ inp.education_level_detail = "") =>
                 (r.breakdown["education"] = 0 /\ marked("education_level"))
           /\ (/\ inp.lang_speaking = None /\ inp.lang_listening = None
               /\ inp.lang_reading = None /\ inp.lang_writing = None) =>
                 (r.breakdown["first_official_language"] = 0 /\ marked("language_scores"))

\* the numbers of a result: age, education, first language, Canadian work,
\* core, transferability, spouse, additional, total
Numbers(r) ==
    <<r.breakdown["age"], r.breakdown["education"], r.breakdown["first_official_language"],
      r.breakdown["canadian_work_experience"], r.core_human_capital, r.skill_transferability,
      r.spouse_factors, r.additional_points, r.total>>

\* C18: for Scenario A (age 30, single, bachelors, IELTS 7.5/8.0/8.5/7.0, 2
\* Canadian and 3 foreign work years) compute_crs returns age 105, education
\* 120, first language 130, Canadian work 53, core 408, transferability 100
\* (three sub-scores of 50, clamped), spouse 0, additional 0, total 508; with
\* age 45 instead it returns age 0, core 303, total 403.
C18_ScenarioTotals ==
    /\ (Scored /\ call.inp = ScenarioA) =>
          /\ Numbers(call.result[1]) = <<105, 120, 130, 53, 408, 100, 0, 0, 508>>
          /\ transferability_education_language("bachelors", 9, FALSE) = 50
          /\ transferability_education_canadian_work("bachelors", 2, FALSE) = 50
          /\ transferability_foreign_language(3, 9) = 50
    /\ (Scored /\ call.inp = [ScenarioA EXCEPT !.age = 45]) =>
          Numbers(call.result[1]) = <<0, 120, 130, 53, 303, 100, 0, 0, 403>>

\* compute_crs has returned 403 for Scenario A at age 45
C18_Witness ==
    /\ Scored
    /\ call.inp = [ScenarioA EXCEPT !.age = 45]
    /\ call.inp.lang_speaking = Some(75)
    /\ call.inp.canadian_work_years = 2
    /\ call.result[1].total = 403
    /\ call.result[1].breakdown["age"] = 0

\* the spouse gate as specified: the spouse accompanies and the marital
\* status, in any casing, is married or common-law
SpouseGate(inp) ==
    /\ inp.spouse_accompanying
    /\ lower(strip(inp.marital_status)) \in {"married", "common_law", "common-law", "common law"}

\* what compute_crs returns for inp when it takes with_spouse for false
SingleVariant(inp) ==
    scored(inp, FALSE,
           normalize_edu_level(IF inp.education_level # "" THEN inp.education_level
                               ELSE inp.education_level_detail),
           clb_from_scores(inp.language_test, inp.lang_speaking, inp.lang_listening,
                           inp.lang_reading, inp.lang_writing),
           clb_from_scores(inp.spouse_language_test, inp.spouse_lang_speaking,
                           inp.spouse_lang_listening, inp.spouse_lang_reading,
                           inp.spouse_lang_writing),
           clb_from_scores("ielts", inp.second_lang_speaking, inp.second_lang_listening,
                           inp.second_lang_reading, inp.second_lang_writing))

\* C19: for every profile whose spouse does not accompany or whose marital
\* status is not married or common-law, spouse_factors is 0 and the age,
\* education, language and Canadian work points are those of the single
\* tables.
C19_SpouseGate ==
    (Scored /\ ~SpouseGate(call.inp)) =>
        /\ call.result[1].spouse_factors = 0
        /\ Numbers(call.result[1]) = Numbers(SingleVariant(call.inp))

\* a test type names one of the three supported tests
Supported(test_type) ==
    \E family \in {"ielts", "celpip", "pte"} : str_in(family, lower(test_type))

\* a raw score (in tenths) lies on the scale of its test: IELTS bands 0 to
\* 9, CELPIP levels 1 to 12, PTE Core scores 10 to 90
InRange(test_type, x) ==
    IF str_in("celpip", lower(test_type)) THEN 10 <= x /\ x <= 120
    ELSE IF str_in("pte", lower(test_type)) THEN 100 <= x /\ x <= 900
    ELSE 0 <= x /\ x <= 90

\* C20: _clb_from_scores returns, for every test type and raw score, a level
\* that is 0 or one of 4..12, and 0 when the test type is none of the
\* supported ones or the raw score is off the scale of the test.
C20_ConversionRange ==
    (call.op = "_clb_from_scores" /\ call.result # None) =>
        \A i \in 1..4 :
            /\ call.result[1][i] \in {0} \cup 4..12
            /\ (call.scores[i] # None /\ ~Supported(call.test_type)) => call.result[1][i] = 0
            /\ (call.scores[i] # None /\ ~InRange(call.test_type, call.scores[i][1])) =>
                  call.result[1][i] = 0


(***************************************************************************)
(* The profile normalizer on raw attribute bags.  The value of a           *)
(* *_language_scores key is whatever the profile document holds: nothing,  *)
(* a mapping, a string, a number or a list.  `truth` is Python's truth     *)
(* value of it, `dict` the scores of a mapping, `items` the elements of a  *)
(* list.                                                                   *)
(***************************************************************************)
Value(type, truth, dict, items) == [type |-> type, truth |-> truth, dict |-> dict, items |-> items]

NoValue == Value("NoneType", FALSE, None, <<>>)

EmptyMapping == Value("dict", FALSE, None, <<>>)

Mapping(d) == Value("dict", TRUE, Some(d), <<>>)

Text(s) == Value("str", s # "", None, <<>>)

Number(n) == Value("int", n # 0, None, <<>>)

List(items) == Value("list", items # <<>>, None, items)

CelpipScores == LanguageScores("celpip", Some(90), Some(90), Some(80), Some(80))

\* the values one *_language_scores key takes
LanguageValues == {
    NoValue, EmptyMapping, Mapping(CelpipScores), Text(""), Text("IELTS 7.5"),
    Number(0), Number(7), List(<<>>), List(<<Mapping(CelpipScores)>>),
    List(<<Text("IELTS 7.5")>>), List(<<Number(7), Mapping(CelpipScores)>>) }

\* a raw attribute bag: the well-typed keys of `data` and the three
\* *_language_scores values
RawData(data, language_scores, spouse_language_scores, second_language_scores) ==
    [data |-> data, language_scores |-> language_scores,
     spouse_language_scores |-> spouse_language_scores,
     second_language_scores |-> second_language_scores]

RawProfiles == {RawData(data, l, s, s2) : data \in {NoData, ScenarioAData},
                                          l \in LanguageValues, s \in LanguageValues,
                                          s2 \in LanguageValues}

\* lines 468-470 (471-473, 489-491): `lang = data.get(key) or {}`, and the
\* first element of a non-empty list in its place
first_mapping(value) ==
    LET lang == IF value.truth THEN value ELSE EmptyMapping
    IN IF lang.type = "list" /\ lang.truth THEN lang.items[1] ELSE lang

\* `lang.get(...)` exists on a dict only
has_get(lang) == lang.type = "dict"

\* the scores a mapping holds, as the Optional of the well-typed data
scores_of(lang) == IF lang.dict = None THEN None ELSE Some(lang.dict[1])

\* crs_agent.profile_to_crs_input on a raw attribute bag: the function has
\* no handler around the `.get` calls of lines 501-522, so a value that is
\* no mapping ends it with AttributeError
profile_to_crs_input_raw(raw) ==
    LET lang == first_mapping(raw.language_scores)
        spouse_lang == first_mapping(raw.spouse_language_scores)
        s2lang == first_mapping(raw.second_language_scores)
    IN IF ~(has_get(lang) /\ has_get(s2lang) /\ has_get(spouse_lang))
       THEN [outcome |-> "raised", exception |-> "AttributeError", result |-> None]
       ELSE [outcome |-> "returned", exception |-> "",
             result |-> Some(profile_to_crs_input([raw.data EXCEPT
                           !.language_scores = scores_of(lang),
                           !.spouse_language_scores = scores_of(spouse_lang),
                           !.second_language_scores = scores_of(s2lang)]))]

NormalizerCall(raw, outcome, result) ==
    [op |-> "profile_to_crs_input", raw |-> raw, outcome |-> outcome, result |-> result]

InitNormalizer ==
    /\ rule_check_cache = None
    /\ cache_timestamp = None
    /\ now = 0
    /\ call \in {NormalizerCall(raw, "called", None) : raw \in RawProfiles}
    /\ log = <<>>
    /\ forced_seen = None
    /\ threads = [p \in Threads |-> Idle]
    /\ response = None
    /\ in_flight = EmptyBag

\* profile_to_crs_input(data)
ProfileToCrsInput ==
    /\ call.op = "profile_to_crs_input"
    /\ call.outcome = "called"
    /\ \E answer \in {profile_to_crs_input_raw(call.raw)} :
          call' = NormalizerCall(call.raw, answer.outcome, answer.result)
    /\ UNCHANGED <<rule_check_cache, cache_timestamp, now, log, forced_seen, threads, response, in_flight>>

NextNormalizer == ProfileToCrsInput

SpecNormalizer == InitNormalizer /\ [][NextNormalizer]_vars

\* the value of a key is a mapping, or a list that starts with one
IsMapping(value) == value.type = "dict" \/ (value.type = "list" /\ value.truth /\ value.items[1].type = "dict")

\* the language fields of a profile are at their defaults
LanguageDefaults(inp) ==
    /\ inp.language_test = "ielts"
    /\ inp.lang_speaking = None /\ inp.lang_listening = None
    /\ inp.lang_reading = None /\ inp.lang_writing = None

\* C21: profile_to_crs_input never raises: for every raw attribute bag,
\* including one whose language_scores, spouse_language_scores or
\* second_language_scores is no mapping, it returns a profile, with the
\* fields of an unusable language_scores at their defaults.
C21_NormalizerNeverRaises ==
    (call.op = "profile_to_crs_input" /\ call.outcome # "called") =>
        /\ call.outcome = "returned"
        /\ ~IsMapping(call.raw.language_scores) => LanguageDefaults(call.result[1])


(***************************************************************************)
(* The cache state machine, over the calls SpecCache records.              *)
(***************************************************************************)
\* the latest call had none of the override flags and is the last entry of log
PlainCall == IsCall /\ plain(call) /\ Len(log) >= 1 /\ log[Len(log)].t = call.t

\* C22: a call on the default path without force_rule_check calls
\* check_crs_rules exactly when the cache was Empty or Stale before it, Stale
\* meaning that more than CACHE_DURATION has passed since the last_checked
\* of the cached rule check; on a Fresh cache it calls nothing and reads the
\* cached rule check, and the rule check a call decides on was never checked
\* more than CACHE_DURATION before the call.
C22_CacheStateMachine ==
    PlainCall =>
        /\ call.monitor_calls = 1 <=> log[Len(log)].checked_before \in {"Empty", "Stale"}
        /\ log[Len(log)].checked_before = "Fresh" =>
               call.monitor_calls = 0 /\ call.rule_check # None
        /\ call.rule_check # None => call.t - RuleCheck.last_checked <= CACHE_DURATION

\* the state machine as the code runs it, the age of the cache measured
\* from _cache_timestamp: check_crs_rules is called exactly when the cache
\* was Empty or Stale, and a Fresh cache is read without a call
CacheStateMachineByTimestamp ==
    PlainCall =>
        /\ call.monitor_calls = 1 <=> log[Len(log)].before \in {"Empty", "Stale"}
        /\ log[Len(log)].before = "Fresh" => call.monitor_calls = 0 /\ call.rule_check # None

\* a call without flags found the cache Fresh by its _cache_timestamp while
\* the cached rule check was checked more than CACHE_DURATION before, and
\* decided on it
StaleRuleCheckUsed ==
    /\ PlainCall
    /\ log[Len(log)].before = "Fresh"
    /\ log[Len(log)].checked_before = "Stale"
    /\ call.monitor_calls = 0
    /\ call.t - RuleCheck.last_checked > CACHE_DURATION

\* a call without flags found the cache Fresh exactly CACHE_DURATION after
\* the check and decided on the cached rule check
FreshAtTheBoundary ==
    /\ PlainCall
    /\ log[Len(log)].before = "Fresh"
    /\ call.monitor_calls = 0
    /\ call.rule_check # None
    /\ call.t - RuleCheck.last_checked = CACHE_DURATION

\* a call without flags found the cache Stale and refreshed it
C22_StaleRefreshed ==
    /\ PlainCall
    /\ log[Len(log)].before = "Stale"
    /\ call.monitor_calls = 1
    /\ RuleCheck.last_checked \in clock_after(call.t)


(***************************************************************************)
(* The comparison of the signature with an official summary, read off the  *)
(* rule checks that check_crs_rules returns without an internal error.     *)
(***************************************************************************)
\* check_crs_rules compared a summary and returned what _compare_rules found
Compared ==
    /\ MonitorReturned
    /\ truthy(call.world.extracted)
    /\ call.result[1].error = None

\* check_crs_rules received a summary from the extraction
Summarised ==
    /\ MonitorReturned
    /\ call.world.error = None
    /\ call.world.extracted # None

\* the comparison of the summary can be carried out: the summary is empty
\* (nothing to compare), or it is a JSON object and every entry of its
\* recent_changes is a text
Comparable ==
    \/ ~truthy(call.world.extracted)
    \/ /\ call.world.extracted[1].kind = "dict"
       /\ \A i \in 1..Len(call.world.extracted[1].recent) :
              call.world.extracted[1].has_recent => call.world.extracted[1].recent[i].text

\* the keys of the signature among the detected changes
KeysFlagged ==
    {call.result[1].changes_detected[i].key : i \in
        {j \in 1..Len(call.result[1].changes_detected) :
            call.result[1].changes_detected[j].kind = "key"}}

\* the same JSON value: the same number (1200.0 is 1200) or the same text
same_value(a, b) ==
    \/ a.t \in {"int", "float"} /\ b.t \in {"int", "float"}
       /\ number_tenths(a) = number_tenths(b)
    \/ a.t = b.t /\ a.t \in {"str", "bool", "null"} /\ a = b

\* the keys the summary holds a value for that is not the signature's value
KeysDiffering ==
    {key \in DOMAIN call.world.extracted[1].vals :
        /\ call.world.extracted[1].vals[key] # JNull
        /\ ~same_value(call.world.extracted[1].vals[key], KNOWN_CRS_RULES_SIGNATURE[key])}

\* a value that stands for the removal of the job offer points: "removed",
\* "0", or a number or truth value equal to 0
RemovalValues == {JStr("removed"), JStr("0"), JInt(0), JFloat(0), JBool(FALSE)}

\* the same, a job_offer_points that stands for the removal counting as
\* the signature's "removed_2025_03_25"
KeysDifferingButRemoved ==
    {key \in KeysDiffering :
        key = "job_offer_points" => call.world.extracted[1].vals[key] \notin RemovalValues}

\* the entries of recent_changes that the recency filter keeps
RecentKept ==
    SelectSeq(IF call.world.extracted[1].has_recent THEN call.world.extracted[1].recent ELSE <<>>,
              LAMBDA change : ~(is_job_offer_removal(change)
                               /\ months_since_removal(call.world.today) >= 6))

\* C23 as stated: for every official summary, a key of the signature
\* contributes a detected change exactly when the summary holds a value for
\* it that differs from the signature's value, and rules_match is true
\* exactly when no key differs and the filtered recent_changes list is empty.
C23_EveryDifferenceFlagged ==
    Summarised =>
        /\ KeysFlagged = KeysDiffering
        /\ call.result[1].rules_match <=> (KeysDiffering = {} /\ RecentKept = <<>>)

\* C23 amended, for every official summary. When the summary is empty or a
\* JSON object whose recent_changes entries are all texts, a key of the signature
\* contributes a detected change exactly when the summary holds a non-null
\* value for it that is not the signature's value, a job_offer_points of
\* "removed", "0", 0, 0.0 or false counting as the signature's removal
\* marker, and rules_match is true exactly when no key so differs and the
\* filtered recent_changes list is empty. For any other summary the
\* comparison fails inside the Monitor: no change is reported, rules_match
\* and use_hardcoded are true and the error field is set.
C23_RuleComparison ==
    Summarised =>
        IF Comparable
        THEN /\ KeysFlagged = KeysDifferingButRemoved
             /\ call.result[1].rules_match
                    <=> (KeysDifferingButRemoved = {} /\ RecentKept = <<>>)
             /\ call.result[1].error = None
        ELSE /\ call.result[1].changes_detected = <<>>
             /\ call.result[1].rules_match
             /\ call.result[1].use_hardcoded
             /\ call.result[1].error # None

\* a summary whose max_points differs was compared: one key is flagged and
\* rules_match is false
C23_Witness ==
    /\ Summarised
    /\ Comparable
    /\ call.world.extracted[1] = ChangedSummary
    /\ KeysFlagged = {"max_points"}
    /\ ~call.result[1].rules_match


(***************************************************************************)
(* The recency filter of _compare_rules.                                   *)
(***************************************************************************)
\* the job offer removal of 25 March 2025 is more than six months before
\* the day <<year, month, day>>
OlderThanGrace(day) ==
    \/ day[1] > 2025
    \/ day[1] = 2025 /\ day[2] > 9
    \/ day[1] = 2025 /\ day[2] = 9 /\ day[3] > 25

\* the texts the rule check reports as recent changes
RecentReported ==
    LET changes == call.result[1].changes_detected
        recent == {i \in 1..Len(changes) : changes[i].kind = "recent"}
    IN UNION {{changes[i].items[j] : j \in 1..Len(changes[i].items)} : i \in recent}

\* the entries of the summary's recent_changes
RecentEntries ==
    IF call.world.extracted[1].has_recent
    THEN {call.world.extracted[1].recent[i] : i \in 1..Len(call.world.extracted[1].recent)}
    ELSE {}

\* C24: once the job offer removal is more than six months old, an entry of
\* recent_changes about it is not reported, and a summary whose only
\* difference is such an entry gives a rule check that matches and keeps
\* compute_crs on the engine; while the removal is at most six months old
\* the entry is reported; an entry about anything else is always reported.
C24_RecencyFilter ==
    Compared =>
        \A change \in RecentEntries :
            /\ (is_job_offer_removal(change) /\ OlderThanGrace(call.world.today)) =>
                  /\ change \notin RecentReported
                  /\ (KeysFlagged = {} /\ RecentEntries = {change}) =>
                        /\ call.result[1].rules_match
                        /\ prefers_hardcoded(call.result[1])
            /\ (is_job_offer_removal(change) /\ ~OlderThanGrace(call.world.today)) =>
                  /\ change \in RecentReported
                  /\ ~call.result[1].rules_match
            /\ ~is_job_offer_removal(change) => change \in RecentReported


(***************************************************************************)
(* The Scoring Engine on profiles that reach the ends of its tables: every *)
(* age from 16 to MaxAge, every education level, both variants, the top    *)
(* language scores and work years, the additional awards, and second       *)
(* language scores that are absent, complete and partial.                  *)
(***************************************************************************)
MaxAge == 46

\* the seven keys of the levels dict, a level that matches none, and none
EducationLevels == {"secondary", "one_two_year_diploma", "two_year_diploma", "bachelors",
                    "two_or_more", "masters", "phd", "trade school", ""}

\* <<marital_status, spouse_accompanying>>
Couples == {<<"single", FALSE>>, <<"married", TRUE>>}

\* age 25, a doctorate, IELTS 9.0 in every skill, five Canadian and three
\* foreign work years
TopProfile == [CRSInput EXCEPT
    !.age = 25,
    !.education_level = "phd",
    !.lang_speaking = Some(90),
    !.lang_listening = Some(90),
    !.lang_reading = Some(90),
    !.lang_writing = Some(90),
    !.canadian_work_years = 5,
    !.foreign_work_years = 3 ]

\* the four raw scores of a second language: none, all four, speaking only
SecondScores == {<<None, None, None, None>>, <<Some(60), Some(60), Some(60), Some(60)>>,
                 <<Some(60), None, None, None>>}

\* <<every additional award claimed?, education_level_detail>>
Awards == {<<FALSE, "">>, <<TRUE, "Two-year college diploma">>, <<TRUE, "Bachelor's degree">>}

ScoringProfiles ==
    { [TopProfile EXCEPT
          !.age = age,
          !.education_level = level,
          !.marital_status = couple[1],
          !.spouse_accompanying = couple[2]] :
        age \in 16..MaxAge, level \in EducationLevels, couple \in Couples }
    \cup
    { [TopProfile EXCEPT
          !.marital_status = couple[1],
          !.spouse_accompanying = couple[2],
          !.lang_speaking = scores[1],
          !.lang_listening = scores[2],
          !.lang_reading = scores[3],
          !.lang_writing = scores[4],
          !.canadian_work_years = years,
          !.has_second_language = has_second,
          !.second_lang_speaking = second[1],
          !.second_lang_listening = second[2],
          !.second_lang_reading = second[3],
          !.second_lang_writing = second[4],
          !.education_level_detail = awards[2],
          !.canadian_education = awards[1],
          !.provincial_nomination = awards[1],
          !.sibling_in_canada = awards[1],
          !.certificate_of_qualification = awards[1]] :
        couple \in Couples, scores \in SkillScores \cup {<<Some(90), Some(90), Some(90), Some(90)>>},
        years \in {0, 1, 5, 7}, has_second \in BOOLEAN, second \in SecondScores,
        awards \in Awards }

InitScoring ==
    /\ rule_check_cache = None
    /\ cache_timestamp = None
    /\ now = 0
    /\ call \in {EngineCall(inp, None) : inp \in ScoringProfiles}
    /\ log = <<>>
    /\ forced_seen = None
    /\ threads = [p \in Threads |-> Idle]
    /\ response = None
    /\ in_flight = EmptyBag

NextScoring == ComputeCrs

SpecScoring == InitScoring /\ [][NextScoring]_vars

\* the value the signature records under a key
Signature(key) == KNOWN_CRS_RULES_SIGNATURE[key].i

\* the profile is at the top of every core table: aged 20 to 29, a
\* doctorate, CLB 10 or more in every skill, five or more Canadian work years
AtTop(inp) ==
    /\ inp.age \in 20..29
    /\ inp.education_level = "phd"
    /\ inp.language_test = "ielts"
    /\ \A score \in {inp.lang_speaking, inp.lang_listening, inp.lang_reading, inp.lang_writing} :
          score # None /\ score[1] >= 80
    /\ inp.canadian_work_years >= 5

\* C25: the signature records what the engine implements.  No result
\* exceeds the maximum the signature records for age, education, first
\* language, Canadian work, core and total, in the variant of the profile;
\* a profile at the top of every table reaches these maxima; and each award
\* the engine grants is the fixed award the signature records.
C25_SignatureIsEngine ==
    Scored =>
        LET r == call.result[1]
            variant == IF with_spouse_of(call.inp) THEN "spouse" ELSE "single"
        IN /\ r.breakdown["age"] <= Signature("age_max_" \o variant)
           /\ r.breakdown["education"] <= Signature("education_max_" \o variant)
           /\ r.breakdown["first_official_language"] <= Signature("language_max_" \o variant)
           /\ r.breakdown["canadian_work_experience"] <= Signature("canadian_work_max_" \o variant)
           /\ r.core_human_capital <= Signature("core_max_" \o variant)
           /\ r.total <= Signature("max_points")
           /\ AtTop(call.inp) =>
                 /\ r.breakdown["age"] = Signature("age_max_" \o variant)
                 /\ r.breakdown["education"] = Signature("education_max_" \o variant)
                 /\ r.breakdown["canadian_work_experience"] = Signature("canadian_work_max_" \o variant)
                 /\ r.breakdown["first_official_language"] = Signature("language_max_" \o variant)
                 /\ r.core_human_capital = Signature("core_max_" \o variant)
           /\ r.breakdown["provincial_nomination"] \in {0, Signature("provincial_nomination")}
           /\ r.breakdown["canadian_study_bonus"] \in
                 {0, Signature("canadian_study_1_2yr"), Signature("canadian_study_3plus")}
           /\ r.breakdown["sibling_in_canada"] \in {0, Signature("sibling")}
           /\ r.breakdown["certificate_of_qualification"] \in {0, Signature("certificate_qualification")}
           /\ r.breakdown["second_official_language"] \in {0, Signature("second_language")}

\* the part of C25 that does not concern the first language and the core
C25_OtherKeys ==
    Scored =>
        LET r == call.result[1]
            variant == IF with_spouse_of(call.inp) THEN "spouse" ELSE "single"
        IN /\ r.breakdown["age"] <= Signature("age_max_" \o variant)
           /\ r.breakdown["education"] <= Signature("education_max_" \o variant)
           /\ r.breakdown["canadian_work_experience"] <= Signature("canadian_work_max_" \o variant)
           /\ r.total <= Signature("max_points")
           /\ AtTop(call.inp) =>
                 /\ r.breakdown["age"] = Signature("age_max_" \o variant)
                 /\ r.breakdown["education"] = Signature("education_max_" \o variant)
                 /\ r.breakdown["canadian_work_experience"] = Signature("canadian_work_max_" \o variant)
                 /\ r.breakdown["first_official_language"] = IF variant = "single" THEN 136 ELSE 128
                 /\ r.core_human_capital = IF variant = "single" THEN 476 ELSE 438
           /\ r.breakdown["provincial_nomination"] \in {0, Signature("provincial_nomination")}
           /\ r.breakdown["canadian_study_bonus"] \in
                 {0, Signature("canadian_study_1_2yr"), Signature("canadian_study_3plus")}
           /\ r.breakdown["sibling_in_canada"] \in {0, Signature("sibling")}
           /\ r.breakdown["certificate_of_qualification"] \in {0, Signature("certificate_qualification")}
           /\ r.breakdown["second_official_language"] \in {0, Signature("second_language")}


\* the entry of the levels dict under index i, in the variant of the profile
LevelEntry(i, inp) == education_levels[i][IF with_spouse_of(inp) THEN 3 ELSE 2]

\* C26: for a profile whose education_level is one of the seven keys of the
\* levels dict, the education points are that key's own entry (single, with
\* spouse); a level that matches no key and no keyword scores as secondary.
C26_EducationLookup ==
    Scored =>
        /\ \A i \in 1..Len(education_levels) :
              call.inp.education_level = education_levels[i][1] =>
                  call.result[1].breakdown["education"] = LevelEntry(i, call.inp)
        /\ call.inp.education_level = "trade school" =>
              call.result[1].breakdown["education"] = LevelEntry(1, call.inp)

\* the same without the key two_year_diploma
C26_OtherLevels ==
    Scored =>
        /\ \A i \in 1..Len(education_levels) :
              (call.inp.education_level = education_levels[i][1] /\ i # 3) =>
                  call.result[1].breakdown["education"] = LevelEntry(i, call.inp)
        /\ call.inp.education_level = "trade school" =>
              call.result[1].breakdown["education"] = LevelEntry(1, call.inp)


\* the age points of the result
AgePoints == call.result[1].breakdown["age"]

\* C27: the age points follow the table for every age and both variants: 0
\* below 18 and from 45 on; 99 and 105 at 18 and 19 (10 less with spouse);
\* 110 (100 with spouse) from 20 to 29; from 30 to 44 a value that starts at
\* 105 and is strictly less each year, with spouse max(0, single - 10);
\* never negative and never more than 110 (100 with spouse).
C27_AgeTable ==
    Scored =>
        LET age == call.inp.age
            with_spouse == with_spouse_of(call.inp)
            less == IF with_spouse THEN 10 ELSE 0
        IN /\ (age < 18 \/ age >= 45) => AgePoints = 0
           /\ age = 18 => AgePoints = 99 - less
           /\ age = 19 => AgePoints = 105 - less
           /\ age \in 20..29 => AgePoints = 110 - less
           /\ age = 30 => AgePoints = 105 - less
           /\ age \in 31..44 =>
                 /\ AgePoints < age_points(age - 1, with_spouse)
                 /\ with_spouse => AgePoints = max2(0, age_points(age, FALSE) - 10)
           /\ AgePoints >= 0
           /\ AgePoints <= 110 - less

\* the engine scored a married applicant of 44 with an accompanying spouse:
\* 11 points, 10 less than the 21 of the single table
C27_Witness ==
    /\ Scored
    /\ call.inp.age = 44
    /\ with_spouse_of(call.inp)
    /\ AgePoints = 11
    /\ age_points(44, FALSE) = 21


(***************************************************************************)
(* The rule checks the cache holds and the branches of compute_crs they    *)
(* leave unreachable.                                                      *)
(***************************************************************************)
\* rules_match, use_hardcoded and 'no changes' agree
Consistent(rule_check) ==
    /\ rule_check.rules_match = rule_check.use_hardcoded
    /\ rule_check.rules_match = (rule_check.changes_detected = <<>>)

\* the breakdown of the result of the latest call holds the key
Carries(key) == "breakdown" \notin call.result.non_int /\ key \in DOMAIN call.result.breakdown

\* C28: every rule check a call read and every rule check in the cache has
\* rules_match = use_hardcoded = (changes_detected is empty); so no result
\* of compute_crs carries rule_check_warning or rule_check_note, and a
\* result tagged hardcoded_fallback has ai_calculation_failed in
\* missing_or_defaulted.
C28_RuleChecksConsistent ==
    /\ rule_check_cache # None => Consistent(rule_check_cache[1])
    /\ (IsCall /\ call.rule_check # None) => Consistent(RuleCheck)
    /\ Returned =>
          /\ ~Carries("rule_check_warning")
          /\ ~Carries("rule_check_note")
          /\ HasTag(call.result, "hardcoded_fallback") =>
                \E i \in 1..Len(call.result.missing_or_defaulted) :
                    call.result.missing_or_defaulted[i] = "ai_calculation_failed"

\* a default call read a rule check that lists a change and does not match,
\* the AI failed, and the result is tagged hardcoded_fallback and marked
C28_Witness ==
    /\ DefaultPath /\ Returned
    /\ call.rule_check # None
    /\ ~RuleCheck.rules_match /\ ~RuleCheck.use_hardcoded /\ RuleCheck.changes_detected # <<>>
    /\ rule_check_cache = call.rule_check
    /\ HasTag(call.result, "hardcoded_fallback")
    /\ call.result.missing_or_defaulted[Len(call.result.missing_or_defaulted)] = "ai_calculation_failed"
    /\ ~Carries("rule_check_note")


(***************************************************************************)
(* The race between clear_rule_check_cache and a caller that uses the      *)
(* cache, under SpecThreads.                                               *)
(***************************************************************************)
\* thread p's caller has returned or raised after a call of _get_rule_check
\* that gave it no rule check: None was returned, or the TypeError of line
\* 36 raised
GotNothing(p) ==
    /\ threads[p].pc = "idle"
    /\ threads[p].caller # "none"
    /\ threads[p].outcome \notin {"none", "returned", "TypeError"}
    /\ threads[p].rule_check = None

\* C29: when clear_rule_check_cache runs between the moment a caller's
\* _get_rule_check took the cache for fresh (or stored its refresh) and the
\* moment it reads the cache, the caller does not raise and decides on no
\* rule check: compute_crs on the default path returns the engine's result
\* tagged hardcoded_error_fallback, compute_crs with force_ai_calculation
\* goes on without an official summary, and get_rule_check_status returns
\* its error status with use_hardcoded true.
C29_InvalidationRace ==
    \A p \in Threads :
        GotNothing(p) =>
            /\ threads[p].outcome # "raised"
            /\ threads[p].caller = "compute_crs" =>
                  threads[p].outcome = "hardcoded_error_fallback"
            /\ threads[p].caller = "compute_crs_force_ai" =>
                  threads[p].outcome = "ai_without_summary"
            /\ threads[p].caller = "get_rule_check_status" =>
                  threads[p].outcome = "status_error"

\* what holds of the race: the default path and the status call end as
\* C29 says, and compute_crs with force_ai_calculation goes on to the AI
\* calculator without a summary, whose exception it does not handle
RaceOutcomes ==
    \A p \in Threads :
        GotNothing(p) =>
            /\ threads[p].caller = "compute_crs" =>
                  threads[p].outcome = "hardcoded_error_fallback"
            /\ threads[p].caller = "compute_crs_force_ai" =>
                  threads[p].outcome \in {"ai_without_summary", "raised"}
            /\ threads[p].caller = "get_rule_check_status" =>
                  threads[p].outcome = "status_error"

\* get_rule_check_status took the cache for fresh, the other thread cleared
\* it, and the status call read None and returned its error status
StatusRace ==
    \E p \in Threads :
        /\ GotNothing(p)
        /\ threads[p].fresh
        /\ threads[p].caller = "get_rule_check_status"
        /\ threads[p].outcome = "status_error"
        /\ rule_check_cache = None

\* get_rule_check_status read its rule check, the other thread cleared the
\* cache between its two reads of _cache_timestamp, and it returned its
\* error status
StatusAgeRace ==
    \E p \in Threads :
        /\ threads[p].pc = "idle"
        /\ threads[p].caller = "get_rule_check_status"
        /\ threads[p].rule_check # None
        /\ threads[p].outcome = "status_error"

\* the same race under a default compute_crs
C29_DefaultPathRace ==
    \E p \in Threads :
        /\ GotNothing(p)
        /\ threads[p].fresh
        /\ threads[p].caller = "compute_crs"
        /\ threads[p].outcome = "hardcoded_error_fallback"

\* a forced AI call stored its refresh, the other thread cleared the cache,
\* and the call read None and went on without a summary
C29_ForcedAiRace ==
    \E p \in Threads :
        /\ GotNothing(p)
        /\ threads[p].caller = "compute_crs_force_ai"
        /\ threads[p].outcome = "ai_without_summary"

\* the same, and the AI calculator raised: so did compute_crs
ForcedAiRaceRaised ==
    \E p \in Threads :
        /\ GotNothing(p)
        /\ threads[p].caller = "compute_crs_force_ai"
        /\ threads[p].outcome = "raised"


\* the entries of the breakdown of a result that make up its core and its
\* additional points
BreakdownCore(r) ==
    r.breakdown["age"] + r.breakdown["education"] + r.breakdown["first_official_language"]
    + r.breakdown["canadian_work_experience"]

BreakdownAdditional(r) ==
    r.breakdown["provincial_nomination"] + r.breakdown["canadian_study_bonus"]
    + r.breakdown["sibling_in_canada"] + r.breakdown["certificate_of_qualification"]
    + r.breakdown["second_official_language"]

\* C30: the breakdown of every result of the engine agrees with its
\* subtotals: age + education + first language + Canadian work is
\* core_human_capital, the spouse and transferability entries are the
\* subtotals of that name, and the five additional entries sum to
\* additional_points, also when the second-language scores are partly
\* present.
C30_BreakdownConsistent ==
    Scored =>
        /\ BreakdownCore(call.result[1]) = call.result[1].core_human_capital
        /\ call.result[1].breakdown["spouse_factors"] = call.result[1].spouse_factors
        /\ call.result[1].breakdown["skill_transferability"] = call.result[1].skill_transferability
        /\ BreakdownAdditional(call.result[1]) = call.result[1].additional_points

\* the same for profiles whose second-language scores are all present or
\* all absent
C30_CompleteSecondScores ==
    (Scored /\ (call.inp.second_lang_speaking = None) = (call.inp.second_lang_listening = None)) =>
        /\ BreakdownCore(call.result[1]) = call.result[1].core_human_capital
        /\ call.result[1].breakdown["spouse_factors"] = call.result[1].spouse_factors
        /\ call.result[1].breakdown["skill_transferability"] = call.result[1].skill_transferability
        /\ BreakdownAdditional(call.result[1]) = call.result[1].additional_points

====
